---------------------------- MODULE Spec2Model ----------------------------
(***************************************************************************)
(* GaitVision: label standardisation, grouped statistics (normaliser.py)   *)
(* and the PCA pipeline: numeric preprocessor, outlier filter,             *)
(* decomposition, rotation and variable importance                         *)
(* (pca_pipeline_module.py, pca_logic.py).                                 *)
(*                                                                         *)
(* Python strings are sequences of one-character strings, so that strip,   *)
(* lower, upper, `in` and re.search are computed character by character.   *)
(* A table cell is a record [k, s, v]: k = "na" a missing value (NaN/NA),  *)
(* k = "str" a string s, k = "num" the number v.  Statistics are exact     *)
(* rationals <<numerator, denominator>>; denominator 0 is NaN.             *)
(***************************************************************************)
EXTENDS Integers, Sequences, FiniteSets, TLC

VARIABLES
    label_in,      \* the value handed to a standardize_* function
    label_out,     \* the value it returned
    label_prev,    \* the value returned by the call before the last one
    label_pc,      \* which standardize_* call has run
    raw_df,        \* the caller's DataFrame handed to normalise_data
    result,        \* what normalise_data did: returned a dict or raised
    csv_file,      \* the file PCAAnalysisPipeline.csv_file names
    pipeline_raw_df, \* PCAAnalysisPipeline.raw_df
    numeric_df,    \* PCAAnalysisPipeline.numeric_df
    log_file,      \* the lines _log has written
    outcome,       \* what the last method called did: returned or raised
    rotation_method, \* PCAAnalysisPipeline.rotation_method
    pca_model,     \* PCAAnalysisPipeline.pca_model (its results dict)
    pca_results,   \* PCAAnalysisPipeline.pca_results
    weighted_importance, \* PCAAnalysisPipeline.weighted_importance, total_weight
    called,        \* the methods called on the pipeline object so far
    library,       \* the calls made into sklearn / pca / factor_analyzer, with
                   \* what each answered
    first_run,     \* what an earlier pipeline object on the same file produced
    n_components,  \* PCAAnalysisPipeline.n_components
    display_threshold, \* the threshold display_important_variables was called with
    stage_errors,  \* the errors the stages of run_full_pipeline raised
    clock,         \* datetime.now(), in seconds
    files,         \* the files of the results directory of a PCAService
    runs           \* the requests a PCAService is processing

vars == <<label_in, label_out, label_prev, label_pc, raw_df, result,
          csv_file, pipeline_raw_df, numeric_df, log_file, outcome,
          rotation_method, pca_model, pca_results, weighted_importance,
          called, library, first_run>>

(***************************************************************************)
(* Bounds of the model.                                                    *)
(***************************************************************************)
MaxTokens == 3     \* a label is the concatenation of at most MaxTokens tokens
MaxRows == 2       \* rows of a table handed to normalise_data
MaxCsvRows == 2    \* rows of a CSV file handed to the pipeline
MaxSamples == 3    \* rows of a CSV file handed to the decomposition

(***************************************************************************)
(* Python str primitives.                                                  *)
(***************************************************************************)
UpperLetters ==
    <<"A", "B", "C", "D", "E", "F", "G", "H", "I", "J", "K", "L", "M",
      "N", "O", "P", "Q", "R", "S", "T", "U", "V", "W", "X", "Y", "Z">>

LowerLetters ==
    <<"a", "b", "c", "d", "e", "f", "g", "h", "i", "j", "k", "l", "m",
      "n", "o", "p", "q", "r", "s", "t", "u", "v", "w", "x", "y", "z">>

Digits == <<"0", "1", "2", "3", "4", "5", "6", "7", "8", "9">>

\* The characters of the model in code-point order (str comparison).
CodePointOrder ==
    <<"\t", "\n", " ", "'", "-">> \o Digits \o UpperLetters \o <<"_">>
      \o LowerLetters

IndexOf(seq, c) == CHOOSE i \in 1..Len(seq) : seq[i] = c

Occurs(seq, c) == \E i \in 1..Len(seq) : seq[i] = c

lower_char(c) ==
    IF Occurs(UpperLetters, c) THEN LowerLetters[IndexOf(UpperLetters, c)] ELSE c

upper_char(c) ==
    IF Occurs(LowerLetters, c) THEN UpperLetters[IndexOf(LowerLetters, c)] ELSE c

lower(s) == [i \in 1..Len(s) |-> lower_char(s[i])]

upper(s) == [i \in 1..Len(s) |-> upper_char(s[i])]

isspace(c) == c \in {" ", "\t", "\n"}

isdigit(c) == Occurs(Digits, c)

\* str.strip(): drop the leading and the trailing whitespace.
strip(s) ==
    LET keep == {i \in 1..Len(s) : ~isspace(s[i])}
    IN  IF keep = {} THEN <<>>
        ELSE LET lo == CHOOSE i \in keep : \A j \in keep : i <= j
                 hi == CHOOSE i \in keep : \A j \in keep : j <= i
             IN  SubSeq(s, lo, hi)

\* `sub in s`
contains(s, sub) ==
    \E i \in 0..(Len(s) - Len(sub)) : SubSeq(s, i + 1, i + Len(sub)) = sub

startswith(s, prefix) ==
    Len(prefix) <= Len(s) /\ SubSeq(s, 1, Len(prefix)) = prefix

endswith(s, suffix) ==
    Len(suffix) <= Len(s) /\ SubSeq(s, Len(s) - Len(suffix) + 1, Len(s)) = suffix

\* re.search(r'(\d+)', s).group(1): the leftmost, longest run of digits;
\* <<>> stands for "no match" (a match is never empty).
first_digits(s) ==
    LET ds == {i \in 1..Len(s) : isdigit(s[i])}
    IN  IF ds = {} THEN <<>>
        ELSE LET lo == CHOOSE i \in ds : \A j \in ds : i <= j
                 hi == CHOOSE i \in lo..Len(s) :
                           /\ \A j \in lo..i : isdigit(s[j])
                           /\ (i = Len(s) \/ ~isdigit(s[i + 1]))
             IN  SubSeq(s, lo, hi)

(***************************************************************************)
(* Cells.                                                                  *)
(***************************************************************************)
NA == [k |-> "na", s |-> <<>>, v |-> 0]

Str(s) == [k |-> "str", s |-> s, v |-> 0]

Num(v) == [k |-> "num", s |-> <<>>, v |-> v]

\* pd.isna
isna(x) == x.k = "na"

(***************************************************************************)
(* normaliser.py: the label standardizer.                                  *)
(***************************************************************************)
single_task == <<"s", "i", "n", "g", "l", "e", " ", "t", "a", "s", "k">>

head_turn == <<"h", "e", "a", "d", " ", "t", "u", "r", "n">>

dual_task == <<"d", "u", "a", "l", " ", "t", "a", "s", "k">>

post_injury == <<"p", "o", "s", "t", " ", "i", "n", "j", "u", "r", "y">>

ST == <<"S", "T">>

HT == <<"H", "T">>

DT == <<"D", "T">>

\* A slip in the order of the branches: 'head turn' tested before 'single task'.
standardize_condition_ht_first(condition) ==
    IF isna(condition) THEN condition
    ELSE LET condition_str == strip(condition.s)
         IN  IF contains(lower(condition_str), head_turn)
                   \/ upper(condition_str) = HT
               THEN Str(HT)
             ELSE IF contains(lower(condition_str), single_task)
                   \/ upper(condition_str) = ST
               THEN Str(ST)
             ELSE IF contains(lower(condition_str), dual_task)
                   \/ upper(condition_str) = DT
               THEN Str(DT)
             ELSE Str(condition_str)

\* A slip in the operand: the abbreviations compared with the untrimmed value.
standardize_condition_untrimmed(condition) ==
    IF isna(condition) THEN condition
    ELSE LET condition_str == strip(condition.s)
         IN  IF contains(lower(condition_str), single_task)
                   \/ upper(condition.s) = ST
               THEN Str(ST)
             ELSE IF contains(lower(condition_str), head_turn)
                   \/ upper(condition.s) = HT
               THEN Str(HT)
             ELSE IF contains(lower(condition_str), dual_task)
                   \/ upper(condition.s) = DT
               THEN Str(DT)
             ELSE Str(condition_str)

standardize_condition(condition) ==
    IF isna(condition) THEN condition
    ELSE LET condition_str == strip(condition.s)
         IN  IF contains(lower(condition_str), single_task)
                   \/ upper(condition_str) = ST
               THEN Str(ST)
             ELSE IF contains(lower(condition_str), head_turn)
                   \/ upper(condition_str) = HT
               THEN Str(HT)
             ELSE IF contains(lower(condition_str), dual_task)
                   \/ upper(condition_str) = DT
               THEN Str(DT)
             ELSE Str(condition_str)

\* A slip in the pattern: r'(\d)' takes one digit, not the run.
standardize_timepoint_one_digit(timepoint) ==
    IF isna(timepoint) THEN timepoint
    ELSE LET timepoint_str == strip(timepoint.s)
             match == first_digits(timepoint_str)
         IN  IF (contains(lower(timepoint_str), post_injury)
                   \/ contains(lower(timepoint_str), <<"p", "i">>))
                /\ match # <<>>
               THEN Str(<<"P", "I", "-">> \o <<match[1]>>)
             ELSE Str(timepoint_str)

standardize_timepoint(timepoint) ==
    IF isna(timepoint) THEN timepoint
    ELSE LET timepoint_str == strip(timepoint.s)
             match == first_digits(timepoint_str)
         IN  IF (contains(lower(timepoint_str), post_injury)
                   \/ contains(lower(timepoint_str), <<"p", "i">>))
                /\ match # <<>>
               THEN Str(<<"P", "I", "-">> \o match)
             ELSE Str(timepoint_str)

(***************************************************************************)
(* The labels the standardizers are applied to: missing, or any            *)
(* concatenation of at most MaxTokens of these tokens.                     *)
(***************************************************************************)
Tokens ==
    { <<" ">>,
      <<"\t">>,
      <<"s", "i", "n", "g", "l", "e", " ", "t", "a", "s", "k">>,
      <<"s", "t">>,
      <<"h", "e", "a", "d", " ", "t", "u", "r", "n">>,
      <<"H", "t">>,
      <<"D", "U", "A", "L", " ", "T", "A", "S", "K">>,
      <<"d", "t">>,
      <<"p", "i">>,
      <<"P", "o", "s", "t", " ", "I", "n", "j", "u", "r", "y">>,
      <<"1">>,
      <<"2", " ", "o", "f", " ", "3">> }

RECURSIVE Concats(_)
Concats(n) ==
    IF n = 0 THEN {<<>>}
    ELSE LET shorter == Concats(n - 1)
         IN  shorter \cup {p \o t : p \in shorter, t \in Tokens}

LabelInputs == {NA} \cup {Str(s) : s \in Concats(MaxTokens)}

(***************************************************************************)
(* Values of the variables a specification does not use.                   *)
(***************************************************************************)
NoTable == [columns |-> <<>>, rows |-> <<>>]

NoResult == [kind |-> "none"]

\* Python's None in a field that later holds a frame.
None == [columns |-> <<>>, index |-> <<>>, dtypes |-> <<>>, rows |-> <<>>,
         none |-> TRUE]

LabelIdle ==
    /\ label_in = NA
    /\ label_out = NA
    /\ label_prev = NA
    /\ label_pc = "idle"

NormaliseIdle ==
    /\ raw_df = NoTable
    /\ result = NoResult

PipelineIdle ==
    /\ csv_file = [state |-> "missing", table |-> NoTable]
    /\ pipeline_raw_df = None
    /\ numeric_df = None
    /\ log_file = <<>>
    /\ outcome = NoResult

\* Python's None in a field that later holds a dict or a list.
NoneValue == [kind |-> "None"]

\* pca_results = {}
EmptyDict == [kind |-> "dict", keys |-> {}]

\* No call into a library has been made.
NoCalls == [IsolationForest |-> {}, pca |-> {}, Rotator |-> {}]

DecompositionIdle ==
    /\ rotation_method = ""
    /\ pca_model = NoneValue
    /\ pca_results = EmptyDict
    /\ weighted_importance = NoneValue
    /\ called = <<>>
    /\ library = NoCalls
    /\ first_run = NoResult

\* no display, no run of the full pipeline, no service
RunIdle ==
    /\ n_components = NoneValue
    /\ display_threshold = 0
    /\ stage_errors = <<>>
    /\ clock = 0
    /\ files = <<>>
    /\ runs = <<>>

run_vars == <<n_components, display_threshold, stage_errors, clock, files,
             runs>>

label_vars == <<label_in, label_out, label_prev, label_pc>>

normalise_vars == <<raw_df, result>>

pipeline_vars == <<csv_file, pipeline_raw_df, numeric_df, log_file, outcome>>

decomposition_vars == <<rotation_method, pca_model, pca_results,
                        weighted_importance, called, library, first_run>>

(***************************************************************************)
(* SpecLabel: the standardizers applied to a label, and                    *)
(* standardize_condition applied again to its own result.                  *)
(***************************************************************************)
InitLabel ==
    /\ label_in \in LabelInputs
    /\ label_out = NA
    /\ label_prev = NA
    /\ label_pc = "start"
    /\ NormaliseIdle
    /\ PipelineIdle
    /\ DecompositionIdle
    /\ RunIdle

CallStandardizeCondition ==
    /\ label_pc = "start"
    /\ label_out' = standardize_condition(label_in)
    /\ label_pc' = "condition"
    /\ UNCHANGED <<label_in, label_prev, normalise_vars, run_vars, pipeline_vars,
                 decomposition_vars>>

CallStandardizeConditionAgain ==
    /\ label_pc = "condition"
    /\ label_prev' = label_out
    /\ label_out' = standardize_condition(label_out)
    /\ label_pc' = "condition_twice"
    /\ UNCHANGED <<label_in, normalise_vars, run_vars, pipeline_vars,
                 decomposition_vars>>

CallStandardizeTimepoint ==
    /\ label_pc = "start"
    /\ label_out' = standardize_timepoint(label_in)
    /\ label_pc' = "timepoint"
    /\ UNCHANGED <<label_in, label_prev, normalise_vars, run_vars, pipeline_vars,
                 decomposition_vars>>

NextLabel ==
    \/ CallStandardizeCondition
    \/ CallStandardizeConditionAgain
    \/ CallStandardizeTimepoint

SpecLabel == InitLabel /\ [][NextLabel]_vars

(***************************************************************************)
(* The rules of the label standardizer as the specification words them.    *)
(***************************************************************************)
AllSpace(s, lo, hi) == \A i \in lo..hi : isspace(s[i])

\* The pieces of s that are s without its leading and trailing whitespace.
Trimmed(s) ==
    {SubSeq(s, b[1] + 1, b[1] + b[2]) :
        b \in {c \in (0..Len(s)) \X (0..Len(s)) :
                  /\ c[1] + c[2] <= Len(s)
                  /\ AllSpace(s, 1, c[1])
                  /\ AllSpace(s, c[1] + c[2] + 1, Len(s))
                  /\ (c[2] > 0 => /\ ~isspace(s[c[1] + 1])
                                  /\ ~isspace(s[c[1] + c[2]]))}}

SameLetter(a, b) == lower_char(a) = lower_char(b)

EqualsAnyCase(t, word) ==
    Len(t) = Len(word) /\ \A i \in 1..Len(t) : SameLetter(t[i], word[i])

ContainsAnyCase(t, word) ==
    \E off \in 0..(Len(t) - Len(word)) :
        \A i \in 1..Len(word) : SameLetter(t[off + i], word[i])

ConditionRule(t) ==
    IF ContainsAnyCase(t, single_task) \/ EqualsAnyCase(t, ST) THEN ST
    ELSE IF ContainsAnyCase(t, head_turn) \/ EqualsAnyCase(t, HT) THEN HT
    ELSE IF ContainsAnyCase(t, dual_task) \/ EqualsAnyCase(t, DT) THEN DT
    ELSE t

\* The pieces of t that are its first run of decimal digits.
FirstDigitRuns(t) ==
    {SubSeq(t, b[1], b[2]) :
        b \in {c \in (1..Len(t)) \X (1..Len(t)) :
                  /\ c[1] <= c[2]
                  /\ \A j \in 1..(c[1] - 1) : ~isdigit(t[j])
                  /\ \A j \in c[1]..c[2] : isdigit(t[j])
                  /\ (c[2] = Len(t) \/ ~isdigit(t[c[2] + 1]))}}

HasDigit(t) == \E i \in 1..Len(t) : isdigit(t[i])

TimepointKeyword(t) ==
    ContainsAnyCase(t, post_injury) \/ ContainsAnyCase(t, <<"p", "i">>)

\* C3: standardize_condition returns a missing value as it is; any other
\* value is trimmed and mapped to ST, HT or DT by the first rule, in that
\* order, whose phrase it contains or whose abbreviation it equals (any
\* letter case); a value that matches no rule is returned trimmed.
C3_ConditionRules ==
    label_pc = "condition" =>
        IF isna(label_in) THEN label_out = label_in
        ELSE \E t \in Trimmed(label_in.s) : label_out = Str(ConditionRule(t))

C3_Witness ==
    /\ label_pc = "condition"
    /\ ~isna(label_in)
    /\ label_in.s # <<>>
    /\ isspace(label_in.s[1])
    /\ contains(lower(label_in.s), head_turn)
    /\ contains(lower(label_in.s), single_task)
    /\ label_out = Str(ST)

\* C4: standardize_timepoint returns a missing value as it is; a value
\* whose trimmed form contains 'post injury' or 'pi' (any letter case)
\* becomes 'PI-' followed by its first run of digits, or stays the trimmed
\* value when it has no digit; any other value is returned trimmed, digits
\* or not.
C4_TimepointRules ==
    label_pc = "timepoint" =>
        IF isna(label_in) THEN label_out = label_in
        ELSE \E t \in Trimmed(label_in.s) :
                 IF TimepointKeyword(t) /\ HasDigit(t)
                   THEN \E d \in FirstDigitRuns(t) :
                            label_out = Str(<<"P", "I", "-">> \o d)
                   ELSE label_out = Str(t)

C4_Witness ==
    /\ label_pc = "timepoint"
    /\ label_in = Str(<<"p", "i", " ", "2", " ", "o", "f", " ", "3">>)
    /\ label_out = Str(<<"P", "I", "-", "2">>)

\* C5: applying standardize_condition to its own result changes nothing.
C5_ConditionIdempotent ==
    label_pc = "condition_twice" => label_out = label_prev

C5_Witness ==
    /\ label_pc = "condition_twice"
    /\ label_prev \notin {Str(ST), Str(HT), Str(DT)}
    /\ label_prev # label_in
    /\ label_prev.s # <<>>
    /\ label_out = label_prev

(***************************************************************************)
(* Exact arithmetic for the statistics: a number is <<n, d>> with d > 0    *)
(* in lowest terms; <<0, 0>> is NaN.                                       *)
(***************************************************************************)
NaN == <<0, 0>>

isnan(x) == x[2] = 0

Abs(n) == IF n < 0 THEN -n ELSE n

RECURSIVE Gcd(_, _)
Gcd(a, b) == IF b = 0 THEN a ELSE Gcd(b, a % b)

Rat(n, d) ==
    IF d = 0 THEN NaN
    ELSE LET g == Gcd(Abs(n), Abs(d))
             sign == IF d < 0 THEN -1 ELSE 1
         IN  <<sign * (n \div g), sign * (d \div g)>>

RatAdd(x, y) ==
    IF isnan(x) \/ isnan(y) THEN NaN
    ELSE Rat(x[1] * y[2] + y[1] * x[2], x[2] * y[2])

RatSub(x, y) ==
    IF isnan(x) \/ isnan(y) THEN NaN
    ELSE Rat(x[1] * y[2] - y[1] * x[2], x[2] * y[2])

RatMul(x, y) ==
    IF isnan(x) \/ isnan(y) THEN NaN ELSE Rat(x[1] * y[1], x[2] * y[2])

RatDiv(x, y) ==
    IF isnan(x) \/ isnan(y) THEN NaN ELSE Rat(x[1] * y[2], x[2] * y[1])

RECURSIVE RatSum(_)
RatSum(xs) == IF xs = <<>> THEN <<0, 1>> ELSE RatAdd(Head(xs), RatSum(Tail(xs)))

\* numpy.sqrt kept symbolic: the value whose square is the radicand.
sqrt(x) == [radicand |-> x]

(***************************************************************************)
(* pandas primitives used by normaliser.py.                                *)
(***************************************************************************)
RECURSIVE digits_value(_)
digits_value(s) ==
    IF s = <<>> THEN 0
    ELSE digits_value(SubSeq(s, 1, Len(s) - 1)) * 10
           + (IndexOf(Digits, s[Len(s)]) - 1)

\* pd.to_numeric(cell, errors="coerce"): a number stays, a string of digits
\* is parsed, anything else is NaN.
to_numeric(cell) ==
    IF cell.k = "num" THEN <<cell.v, 1>>
    ELSE IF cell.k = "str" /\ cell.s # <<>>
              /\ \A i \in 1..Len(cell.s) : isdigit(cell.s[i])
      THEN <<digits_value(cell.s), 1>>
    ELSE NaN

\* Series.dropna()
dropna(xs) == SelectSeq(xs, LAMBDA x : ~isnan(x))

\* Series.mean()
mean(xs) == IF xs = <<>> THEN NaN ELSE RatDiv(RatSum(xs), <<Len(xs), 1>>)

\* A slip in the degrees of freedom: the population deviation (ddof = 0).
std_ddof0(xs) ==
    IF Len(xs) <= 0 THEN sqrt(NaN)
    ELSE LET avg == mean(xs)
             sqr == RatSum([i \in 1..Len(xs) |->
                               RatMul(RatSub(avg, xs[i]), RatSub(avg, xs[i]))])
         IN  sqrt(RatDiv(sqr, <<Len(xs), 1>>))

\* Series.std(): ddof = 1, NaN when there are not more values than ddof.
std(xs) ==
    IF Len(xs) <= 1 THEN sqrt(NaN)
    ELSE LET avg == mean(xs)
             sqr == RatSum([i \in 1..Len(xs) |->
                               RatMul(RatSub(avg, xs[i]), RatSub(avg, xs[i]))])
         IN  sqrt(RatDiv(sqr, <<Len(xs) - 1, 1>>))

\* str < str: by code point, a proper prefix first.
Ord(c) == IndexOf(CodePointOrder, c)

RECURSIVE str_lt(_, _)
str_lt(a, b) ==
    IF b = <<>> THEN FALSE
    ELSE IF a = <<>> THEN TRUE
    ELSE IF a[1] = b[1] THEN str_lt(Tail(a), Tail(b))
    ELSE Ord(a[1]) < Ord(b[1])

key_lt(k1, k2) ==
    str_lt(k1[1], k2[1]) \/ (k1[1] = k2[1] /\ str_lt(k1[2], k2[2]))

RECURSIVE sorted_keys(_)
sorted_keys(keys) ==
    IF keys = {} THEN <<>>
    ELSE LET least == CHOOSE k \in keys : \A other \in keys \ {k} : key_lt(k, other)
         IN  <<least>> \o sorted_keys(keys \ {least})

\* The positions 1..n that satisfy Test, in increasing order.
Positions(n, Test(_)) == SelectSeq([i \in 1..n |-> i], Test)

\* raw_df[col] = raw_df[col].apply(f)
apply_column(df, col, f(_)) ==
    [df EXCEPT !.rows =
        [r \in DOMAIN df.rows |-> [df.rows[r] EXCEPT ![col] = f(@)]]]

\* A slip: groupby with dropna=False, a missing key read as the empty label.
groupby_missing_kept(df, timepoint_col, condition_col) ==
    LET key(r) == <<df.rows[r][timepoint_col].s, df.rows[r][condition_col].s>>
        order == sorted_keys({key(r) : r \in DOMAIN df.rows})
    IN  [g \in 1..Len(order) |->
            [key |-> order[g],
             rows |-> Positions(Len(df.rows), LAMBDA r : key(r) = order[g])]]

\* raw_df.groupby([timepoint_col, condition_col]): the groups in sorted key
\* order; a row with a missing key is in no group (dropna=True).
groupby(df, timepoint_col, condition_col) ==
    LET key(r) == <<df.rows[r][timepoint_col].s, df.rows[r][condition_col].s>>
        keyed(r) == /\ ~isna(df.rows[r][timepoint_col])
                    /\ ~isna(df.rows[r][condition_col])
        keys == {key(r) : r \in {q \in DOMAIN df.rows : keyed(q)}}
        order == sorted_keys(keys)
    IN  [g \in 1..Len(order) |->
            [key |-> order[g],
             rows |-> Positions(Len(df.rows),
                                LAMBDA r : keyed(r) /\ key(r) = order[g])]]

(***************************************************************************)
(* normaliser.py: Variable.to_dict and normalise_data.                     *)
(***************************************************************************)
timepoint_kw == <<"t", "i", "m", "e", "p", "o", "i", "n", "t">>

condition_kw == <<"c", "o", "n", "d", "i", "t", "i", "o", "n">>

participant_kw == <<"p", "a", "r", "t", "i", "c", "i", "p", "a", "n", "t">>

participant_id_kw ==
    <<"p", "a", "r", "t", "i", "c", "i", "p", "a", "n", "t", " ", "i", "d">>

id_kw == <<"i", "d">>

ValueError == <<"V", "a", "l", "u", "e", "E", "r", "r", "o", "r">>

\* "Could not find a column containing 'timepoint'"
MsgNoTimepoint ==
    <<"C", "o", "u", "l", "d", " ", "n", "o", "t", " ", "f", "i", "n", "d",
      " ", "a", " ", "c", "o", "l", "u", "m", "n", " ", "c", "o", "n", "t",
      "a", "i", "n", "i", "n", "g", " ", "'">> \o timepoint_kw \o <<"'">>

\* "Could not find a column containing 'condition'"
MsgNoCondition ==
    <<"C", "o", "u", "l", "d", " ", "n", "o", "t", " ", "f", "i", "n", "d",
      " ", "a", " ", "c", "o", "l", "u", "m", "n", " ", "c", "o", "n", "t",
      "a", "i", "n", "i", "n", "g", " ", "'">> \o condition_kw \o <<"'">>

Raise(type, msg) == [kind |-> "raise", type |-> type, msg |-> msg]

NoError == [kind |-> "ok"]

\* `if self.timepoint:` on a str
truthy(s) == s # <<>>

to_dict(self) ==
    LET keys == {"name", "mean", "stdev"}
                  \cup (IF truthy(self.timepoint) THEN {"timepoint"} ELSE {})
                  \cup (IF truthy(self.condition) THEN {"condition"} ELSE {})
    IN  [key \in keys |-> self[key]]

\* A slip in the match: the keyword looked for in col, not in col.lower().
find_column_case_sensitive(columns, keyword) ==
    LET hits == {i \in 1..Len(columns) : contains(columns[i], keyword)}
    IN  IF hits = {} THEN 0 ELSE CHOOSE i \in hits : \A j \in hits : i <= j

\* next((col for col in raw_df.columns if keyword in col.lower()), None):
\* the position of the first such column, 0 for None.
find_column(columns, keyword) ==
    LET hits == {i \in 1..Len(columns) : contains(lower(columns[i]), keyword)}
    IN  IF hits = {} THEN 0 ELSE CHOOSE i \in hits : \A j \in hits : i <= j

\* A slip in the order of the two checks.
validate_columns_condition_first(timepoint_col, condition_col) ==
    IF condition_col = 0 THEN Raise(ValueError, MsgNoCondition)
    ELSE IF timepoint_col = 0 THEN Raise(ValueError, MsgNoTimepoint)
    ELSE NoError

validate_columns(timepoint_col, condition_col) ==
    IF timepoint_col = 0 THEN Raise(ValueError, MsgNoTimepoint)
    ELSE IF condition_col = 0 THEN Raise(ValueError, MsgNoCondition)
    ELSE NoError

\* The second assignment of numeric_cols; the first one is overwritten.
numeric_cols(columns, timepoint_col, condition_col) ==
    Positions(Len(columns),
              LAMBDA i :
                  LET col == columns[i] IN
                  /\ col \notin {columns[timepoint_col], columns[condition_col]}
                  /\ ~contains(lower(col), participant_kw)
                  /\ ~(\/ endswith(lower(col), id_kw)
                       \/ startswith(lower(col), id_kw)
                       \/ contains(lower(col), participant_id_kw)))

\* A slip in the guard: an entry for a column without data too.
has_data_always(col_data) == TRUE

\* len(col_data) > 0
has_data(col_data) == Len(col_data) > 0

\* The entries of one group: one per numeric column that has data.
RECURSIVE group_variables(_, _, _, _)
group_variables(df, columns, group, n) ==
    IF n > Len(columns) THEN <<>>
    ELSE LET column == columns[n]
             numeric == [i \in 1..Len(group.rows) |->
                            to_numeric(df.rows[group.rows[i]][column])]
             col_data == dropna(numeric)
             new_var == [name |-> df.columns[column],
                         mean |-> mean(col_data),
                         stdev |-> std(col_data),
                         timepoint |-> group.key[1],
                         condition |-> group.key[2]]
         IN  (IF has_data(col_data) THEN <<to_dict(new_var)>> ELSE <<>>)
               \o group_variables(df, columns, group, n + 1)

RECURSIVE all_variables(_, _, _, _)
all_variables(df, columns, grouped, g) ==
    IF g > Len(grouped) THEN <<>>
    ELSE group_variables(df, columns, grouped[g], 1)
           \o all_variables(df, columns, grouped, g + 1)

\* normalise_data from "Apply standardisation" on: the label columns of the
\* caller's frame are overwritten, then the groups are walked.
grouped_statistics(raw, timepoint_col, condition_col) ==
    LET df1 == apply_column(raw, condition_col, standardize_condition)
        df2 == apply_column(df1, timepoint_col, standardize_timepoint)
        columns == numeric_cols(df2.columns, timepoint_col, condition_col)
        grouped == groupby(df2, timepoint_col, condition_col)
    IN  [result |-> [kind |-> "return",
                     variables |-> all_variables(df2, columns, grouped, 1)],
         raw_df |-> df2]

\* A slip in the order: the timepoint column standardised before the
\* condition column has been validated.
normalise_data_standardise_early(raw) ==
    LET timepoint_col == find_column(raw.columns, timepoint_kw)
        condition_col == find_column(raw.columns, condition_kw)
        early == IF timepoint_col = 0 THEN raw
                 ELSE apply_column(raw, timepoint_col, standardize_timepoint)
        error == validate_columns(timepoint_col, condition_col)
    IN  IF error.kind = "raise" THEN [result |-> error, raw_df |-> early]
        ELSE grouped_statistics(raw, timepoint_col, condition_col)

\* normalise_data(raw_df): what it returns or raises, and the caller's frame
\* after the call.
normalise_data(raw) ==
    LET timepoint_col == find_column(raw.columns, timepoint_kw)
        condition_col == find_column(raw.columns, condition_kw)
        error == validate_columns(timepoint_col, condition_col)
    IN  IF error.kind = "raise" THEN [result |-> error, raw_df |-> raw]
        ELSE grouped_statistics(raw, timepoint_col, condition_col)

(***************************************************************************)
(* The tables normalise_data is called with.                               *)
(***************************************************************************)
ColParticipantID ==
    <<"P", "a", "r", "t", "i", "c", "i", "p", "a", "n", "t", " ", "I", "D">>

ColTimepoint == <<"T", "i", "m", "e", "p", "o", "i", "n", "t">>

ColWalkTaskCondition ==
    <<"W", "a", "l", "k", " ", "T", "a", "s", "k", " ", "C", "o", "n", "d", "i", "t", "i", "o", "n">>

ColSpeed == <<"S", "p", "e", "e", "d">>

ColPARTICIPANT_ID ==
    <<"P", "A", "R", "T", "I", "C", "I", "P", "A", "N", "T", " ", "I", "D">>

ColTIMEPOINT == <<"T", "I", "M", "E", "P", "O", "I", "N", "T">>

ColWALK_TASK_CONDITION ==
    <<"W", "A", "L", "K", " ", "T", "A", "S", "K", " ", "C", "O", "N", "D", "I", "T", "I", "O", "N">>

Col_participant_id ==
    <<"p", "a", "r", "t", "i", "c", "i", "p", "a", "n", "t", " ", "i", "d">>

Col_condition == <<"c", "o", "n", "d", "i", "t", "i", "o", "n">>

Col_timepoint == <<"t", "i", "m", "e", "p", "o", "i", "n", "t">>

ColID == <<"I", "D">>

ColCondition == <<"C", "o", "n", "d", "i", "t", "i", "o", "n">>

ColCadence == <<"C", "a", "d", "e", "n", "c", "e">>

ColSubjectID == <<"S", "u", "b", "j", "e", "c", "t", " ", "I", "D">>

Col_id_code == <<"i", "d", "_", "c", "o", "d", "e">>

ColParticipantAge ==
    <<"P", "a", "r", "t", "i", "c", "i", "p", "a", "n", "t", " ", "A", "g", "e">>

\* Label cells: missing, a canonical label, a spelling the standardizer
\* rewrites, and whitespace only.
TimepointCells ==
    {NA, Str(<<"P", "I", "-", "1">>), Str(<<"p", "i", " ", "1">>), Str(<<" ", " ">>)}

ConditionCells == {NA, Str(<<"S", "T">>), Str(<<"s", "t">>), Str(<<" ">>)}

TwoSpeedCells == {Num(1), Str(<<"a", "b", "c">>)}

\* Measurement cells: missing, text, a number, a number read as text.
SpeedCells == {NA, Str(<<"a", "b", "c">>), Num(1), Str(<<"4">>)}

SomeTimepointCells ==
    {Str(<<"P", "I", "-", "1">>), Str(<<"p", "i", " ", "1">>), Str(<<"p", "i", " ", "2">>)}

OneConditionCell == {Str(<<"s", "t">>)}

FewTimepointCells == {Str(<<"p", "i", " ", "1">>)}

FewConditionCells == {Str(<<"S", "T">>), Str(<<"d", "t">>)}

FewNumberCells == {Num(1), Num(3)}

IdCells == {Num(1)}

Layout(columns, cells) == [columns |-> columns, cells |-> cells]

Layouts ==
    { Layout(<<ColTimepoint, ColWalkTaskCondition, ColSpeed>>,
             <<TimepointCells, ConditionCells, TwoSpeedCells>>),
      Layout(<<ColTimepoint, ColWalkTaskCondition, ColSpeed>>,
             <<SomeTimepointCells, OneConditionCell, SpeedCells>>),
      Layout(<<ColParticipantID, ColTimepoint, ColWalkTaskCondition, ColSpeed>>,
             <<IdCells, FewTimepointCells, FewConditionCells, FewNumberCells>>),
      Layout(<<ColPARTICIPANT_ID, ColTIMEPOINT, ColWALK_TASK_CONDITION, ColSpeed>>,
             <<IdCells, FewTimepointCells, FewConditionCells, FewNumberCells>>),
      Layout(<<Col_participant_id, ColSpeed, Col_condition, Col_timepoint>>,
             <<IdCells, FewNumberCells, FewConditionCells, FewTimepointCells>>),
      Layout(<<ColID, ColTimepoint, ColCondition, ColCadence>>,
             <<IdCells, FewTimepointCells, FewConditionCells, FewNumberCells>>),
      Layout(<<ColSubjectID, Col_id_code, ColTimepoint, ColCondition>>,
             <<IdCells, FewNumberCells, FewTimepointCells, FewConditionCells>>),
      Layout(<<ColTimepoint, ColCondition, ColParticipantAge, ColSpeed>>,
             <<FewTimepointCells, FewConditionCells, IdCells, FewNumberCells>>),
      Layout(<<ColParticipantID, ColWalkTaskCondition, ColSpeed>>,
             <<IdCells, FewConditionCells, FewNumberCells>>),
      Layout(<<ColParticipantID, ColTimepoint, ColSpeed>>,
             <<IdCells, FewTimepointCells, FewNumberCells>>),
      Layout(<<ColParticipantID, ColSpeed>>,
             <<FewNumberCells, FewNumberCells>>) }

RowsOf(cells) ==
    LET all == UNION {cells[i] : i \in 1..Len(cells)}
    IN  {row \in [1..Len(cells) -> all] : \A i \in 1..Len(cells) : row[i] \in cells[i]}

\* table is a table of this layout with at most maxRows rows
IsTableOf(table, layout, maxRows) ==
    \E n \in 0..maxRows :
        \E rows \in [1..n -> RowsOf(layout.cells)] :
            table = [columns |-> layout.columns, rows |-> rows]

(***************************************************************************)
(* Spec: normalise_data called once on a table.                            *)
(***************************************************************************)
Init ==
    /\ \E layout \in Layouts : IsTableOf(raw_df, layout, MaxRows)
    /\ result = NoResult
    /\ LabelIdle
    /\ PipelineIdle
    /\ DecompositionIdle
    /\ RunIdle

NormaliseData ==
    /\ result.kind = "none"
    /\ LET call == normalise_data(raw_df)
       IN  /\ result' = call.result
           /\ raw_df' = call.raw_df
    /\ UNCHANGED <<label_vars, pipeline_vars, decomposition_vars, run_vars>>

Next == NormaliseData

Spec == Init /\ [][Next]_vars

(***************************************************************************)
(* What the claims about normalise_data speak of, read off the table.      *)
(***************************************************************************)
Called == result.kind # "none"

Returned == result.kind = "return"

Raised == result.kind = "raise"

AllKeys == {"name", "mean", "stdev", "timepoint", "condition"}

\* The label an entry carries; an entry without the key carries the empty one.
EntryLabel(entry, key) == IF key \in DOMAIN entry THEN entry[key] ELSE <<>>

HasColumn(df, keyword) ==
    \E i \in 1..Len(df.columns) : ContainsAnyCase(df.columns[i], keyword)

\* The column of df with this name.
ColumnNamed(df, name) == CHOOSE i \in 1..Len(df.columns) : df.columns[i] = name

\* The numeric values of a column in the rows of df whose standardised labels
\* are (timepoint, condition), missing and non-numeric cells left out.
GroupValues(df, name, timepoint, condition) ==
    LET tcol == find_column(df.columns, timepoint_kw)
        ccol == find_column(df.columns, condition_kw)
        col == ColumnNamed(df, name)
        member(r) ==
            /\ standardize_timepoint(df.rows[r][tcol]) = Str(timepoint)
            /\ standardize_condition(df.rows[r][ccol]) = Str(condition)
            /\ ~isnan(to_numeric(df.rows[r][col]))
        rows == Positions(Len(df.rows), member)
    IN  [i \in 1..Len(rows) |-> to_numeric(df.rows[rows[i]][col])[1]]

RECURSIVE SumOf(_)
SumOf(xs) == IF xs = <<>> THEN 0 ELSE Head(xs) + SumOf(Tail(xs))

SumOfSquares(xs) == SumOf([i \in 1..Len(xs) |-> xs[i] * xs[i]])

\* q = <<n, d>> is the fraction num/den
IsFraction(q, num, den) == q[2] > 0 /\ q[1] * den = q[2] * num

MeanAndStdevOf(entry, xs) ==
    LET n == Len(xs) IN
    /\ n >= 1
    /\ IsFraction(entry.mean, SumOf(xs), n)
    /\ IF n >= 2
         THEN IsFraction(entry.stdev.radicand,
                         n * SumOfSquares(xs) - SumOf(xs) * SumOf(xs),
                         n * (n - 1))
         ELSE isnan(entry.stdev.radicand)

\* C1: every entry normalise_data emits carries the arithmetic mean of the
\* non-missing numeric values of its column in its (timepoint, condition)
\* group, and the square root of their variance with denominator N-1
\* (not a number for a single value).
C1_MeanAndSampleStdev ==
    [][Returned' =>
          \A i \in 1..Len(result'.variables) :
              LET entry == result'.variables[i] IN
              MeanAndStdevOf(entry,
                             GroupValues(raw_df, entry.name,
                                         EntryLabel(entry, "timepoint"),
                                         EntryLabel(entry, "condition")))]_vars

C1_Witness ==
    /\ Returned
    /\ Len(raw_df.rows) = 2
    /\ \E i \in 1..Len(result.variables) :
           /\ result.variables[i].mean = <<5, 2>>
           /\ result.variables[i].stdev = sqrt(<<9, 2>>)

\* The labels of the groups of df: both labels present after standardising.
GroupLabels(df) ==
    LET tcol == find_column(df.columns, timepoint_kw)
        ccol == find_column(df.columns, condition_kw)
    IN  {<<standardize_timepoint(df.rows[r][tcol]).s,
           standardize_condition(df.rows[r][ccol]).s>> :
            r \in {q \in 1..Len(df.rows) :
                      ~isna(df.rows[q][tcol]) /\ ~isna(df.rows[q][ccol])}}

\* The names of the columns normalise_data takes for variables.
VariableNames(df) ==
    LET cols == numeric_cols(df.columns, find_column(df.columns, timepoint_kw),
                             find_column(df.columns, condition_kw))
    IN  {df.columns[cols[i]] : i \in 1..Len(cols)}

EntriesFor(variables, name, labels) ==
    {i \in 1..Len(variables) :
        /\ variables[i].name = name
        /\ EntryLabel(variables[i], "timepoint") = labels[1]
        /\ EntryLabel(variables[i], "condition") = labels[2]}

\* C2: the output holds exactly one entry for each (variable, timepoint,
\* condition) that has a numeric value and none for one that has no value;
\* no entry has a NaN mean and every entry is the entry of such a
\* combination.  A variable is a column normalise_data takes for a
\* measurement.
C2_OneEntryPerNonEmptyCombination ==
    [][Returned' =>
          /\ \A name \in VariableNames(raw_df), labels \in GroupLabels(raw_df) :
                 Cardinality(EntriesFor(result'.variables, name, labels))
                   = IF GroupValues(raw_df, name, labels[1], labels[2]) # <<>>
                       THEN 1 ELSE 0
          /\ \A i \in 1..Len(result'.variables) :
                 LET entry == result'.variables[i] IN
                 /\ ~isnan(entry.mean)
                 /\ entry.name \in VariableNames(raw_df)
                 /\ <<EntryLabel(entry, "timepoint"),
                      EntryLabel(entry, "condition")>> \in GroupLabels(raw_df)]_vars

\* A group with values next to a group whose only cell is not numeric.
C2_Witness ==
    /\ Returned
    /\ Len(result.variables) = 1
    /\ Len(raw_df.rows) = 2
    /\ raw_df.rows[1][1] # raw_df.rows[2][1]
    /\ ~isna(raw_df.rows[1][1]) /\ ~isna(raw_df.rows[2][1])
    /\ ~isna(raw_df.rows[1][2]) /\ ~isna(raw_df.rows[2][2])
    /\ raw_df.columns = <<ColTimepoint, ColWalkTaskCondition, ColSpeed>>
    /\ isnan(to_numeric(raw_df.rows[2][3]))

\* C6 as stated: without a timepoint column the computation fails with a
\* DataProcessingError whose message mentions 'timepoint'.
C6_Stated_DataProcessingError ==
    (Called /\ ~HasColumn(raw_df, timepoint_kw)) =>
        /\ Raised
        /\ result.type = <<"D", "a", "t", "a", "P", "r", "o", "c", "e", "s",
                           "s", "i", "n", "g", "E", "r", "r", "o", "r">>
        /\ ContainsAnyCase(result.msg, timepoint_kw)

\* C6 amended: without a timepoint column normalise_data fails with a
\* ValueError whose message mentions 'timepoint'.
C6_ValueErrorMentionsTimepoint ==
    (Called /\ ~HasColumn(raw_df, timepoint_kw)) =>
        /\ Raised
        /\ result.type = ValueError
        /\ ContainsAnyCase(result.msg, timepoint_kw)

\* No timepoint column and no condition column either.
C6_Witness ==
    /\ Raised
    /\ ~HasColumn(raw_df, timepoint_kw)
    /\ ~HasColumn(raw_df, condition_kw)
    /\ Len(raw_df.rows) > 0

\* C7: normalise_data raises ValueError "Could not find a column containing
\* 'timepoint'" when no column name contains 'timepoint', and "... containing
\* 'condition'" when a timepoint column exists and no column name contains
\* 'condition'; it raises in no other case, and when it raises it returns no
\* statistics and leaves the caller's table as it was.
C7_MissingColumnErrors ==
    [][Called' =>
          /\ ~HasColumn(raw_df, timepoint_kw) =>
                 result' = Raise(ValueError, MsgNoTimepoint)
          /\ (HasColumn(raw_df, timepoint_kw) /\ ~HasColumn(raw_df, condition_kw)) =>
                 result' = Raise(ValueError, MsgNoCondition)
          /\ (HasColumn(raw_df, timepoint_kw) /\ HasColumn(raw_df, condition_kw)) =>
                 Returned'
          /\ Raised' => (raw_df' = raw_df /\ "variables" \notin DOMAIN result')]_vars

\* A timepoint column whose cells the standardizer would rewrite, and no
\* condition column.
C7_Witness ==
    /\ result = Raise(ValueError, MsgNoCondition)
    /\ HasColumn(raw_df, timepoint_kw)
    /\ \E r \in 1..Len(raw_df.rows) :
           LET cell == raw_df.rows[r][find_column(raw_df.columns, timepoint_kw)]
           IN  standardize_timepoint(cell) # cell

\* C8: every entry normalise_data emits has the five keys name, mean, stdev,
\* timepoint and condition.
C8_Stated_AllFiveKeys ==
    Returned => \A i \in 1..Len(result.variables) :
                    DOMAIN result.variables[i] = AllKeys

\* The identifier columns as the claim C9 words them.
IsIdentifierName(name) ==
    \/ ContainsAnyCase(name, participant_id_kw)
    \/ (Len(name) >= 2 /\ EqualsAnyCase(SubSeq(name, 1, 2), id_kw))
    \/ (Len(name) >= 2 /\ EqualsAnyCase(SubSeq(name, Len(name) - 1, Len(name)), id_kw))

EmittedNames == {result.variables[i].name : i \in 1..Len(result.variables)}

\* C9: normalise_data emits no statistic named after the timepoint column,
\* the condition column or an identifier column, and every other column with
\* a numeric value in some group is emitted.
C9_Stated_MeasurementColumns ==
    Returned =>
        LET tcol == find_column(raw_df.columns, timepoint_kw)
            ccol == find_column(raw_df.columns, condition_kw)
        IN  \A c \in 1..Len(raw_df.columns) :
                LET name == raw_df.columns[c] IN
                IF c \in {tcol, ccol} \/ IsIdentifierName(name)
                  THEN name \notin EmittedNames
                  ELSE (\E r \in 1..Len(raw_df.rows) :
                            /\ ~isna(raw_df.rows[r][tcol])
                            /\ ~isna(raw_df.rows[r][ccol])
                            /\ ~isnan(to_numeric(raw_df.rows[r][c])))
                         => name \in EmittedNames

(***************************************************************************)
(* pca_pipeline_module.py: PCAAnalysisPipeline.create_numeric_df.          *)
(* A frame has its column names, its row labels (the index), a dtype per   *)
(* column and its rows; the cells of a numeric frame are numbers or NaN.   *)
(***************************************************************************)
Frame(columns, index, dtypes, rows) ==
    [columns |-> columns, index |-> index, dtypes |-> dtypes, rows |-> rows,
     none |-> FALSE]

Range(f) == {f[i] : i \in DOMAIN f}

RangeIndex(n) == [i \in 1..n |-> i - 1]

\* DataFrame.empty: an axis of length 0
empty(df) == Len(df.columns) = 0 \/ Len(df.rows) = 0

Column(df, c) == [r \in 1..Len(df.rows) |-> df.rows[r][c]]

select_columns(df, keep) ==
    Frame([i \in 1..Len(keep) |-> df.columns[keep[i]]],
          df.index,
          [i \in 1..Len(keep) |-> df.dtypes[keep[i]]],
          [r \in 1..Len(df.rows) |-> [i \in 1..Len(keep) |-> df.rows[r][keep[i]]]])

select_rows(df, keep) ==
    Frame(df.columns,
          [i \in 1..Len(keep) |-> df.index[keep[i]]],
          df.dtypes,
          [i \in 1..Len(keep) |-> df.rows[keep[i]]])

\* pd.read_csv: the cells of the file under a fresh 0-based index.
read_csv(table) ==
    LET dtype(c) ==
            IF \E r \in 1..Len(table.rows) : table.rows[r][c].k = "str"
              THEN "object"
            ELSE IF \E r \in 1..Len(table.rows) : table.rows[r][c].k = "na"
              THEN "float64"
            ELSE "int64"
    IN  Frame(table.columns, RangeIndex(Len(table.rows)),
              [c \in 1..Len(table.columns) |-> dtype(c)], table.rows)

\* raw_df.apply(pd.to_numeric, errors="coerce")
apply_to_numeric(df) ==
    LET rows == [r \in 1..Len(df.rows) |->
                    [c \in 1..Len(df.columns) |-> to_numeric(df.rows[r][c])]]
        dtype(c) == IF \E r \in 1..Len(rows) : isnan(rows[r][c])
                      THEN "float64" ELSE "int64"
    IN  Frame(df.columns, df.index, [c \in 1..Len(df.columns) |-> dtype(c)], rows)

\* A slip: the all-missing columns are kept.
dropna_columns_all_kept(df) == df

\* dropna(axis=1, how="all"): keep the columns with a value
dropna_columns_all(df) ==
    select_columns(df, Positions(Len(df.columns),
                                 LAMBDA c : \E r \in 1..Len(df.rows) :
                                                ~isnan(df.rows[r][c])))

\* dropna(axis=0, how="all"): keep the rows with a value
dropna_rows_all(df) ==
    select_rows(df, Positions(Len(df.rows),
                              LAMBDA r : \E c \in 1..Len(df.columns) :
                                             ~isnan(df.rows[r][c])))

\* numeric_df.fillna(numeric_df.mean()): a missing cell takes the mean of the
\* values of its column; where that mean is NaN nothing is filled.
fillna_mean(df) ==
    LET means == [c \in 1..Len(df.columns) |-> mean(dropna(Column(df, c)))]
    IN  [df EXCEPT !.rows =
            [r \in 1..Len(df.rows) |->
                [c \in 1..Len(df.columns) |->
                    IF isnan(df.rows[r][c]) THEN means[c] ELSE df.rows[r][c]]]]

\* numeric_df.isnull().all().any()
isnull_all_any(df) ==
    \E c \in 1..Len(df.columns) : \A r \in 1..Len(df.rows) : isnan(df.rows[r][c])

\* isnull().any().any()
isnull_any(df) ==
    \E c \in 1..Len(df.columns) : \E r \in 1..Len(df.rows) : isnan(df.rows[r][c])

\* drop(columns=[col ... if 'participant id' in col.lower()], errors='ignore')
drop_participant_id(df) ==
    select_columns(df, Positions(Len(df.columns),
                                 LAMBDA c : ~contains(lower(df.columns[c]),
                                                      participant_id_kw)))

\* reset_index(drop=True)
reset_index(df) == [df EXCEPT !.index = RangeIndex(Len(df.rows))]

\* A slip: the frame is returned whatever the mask.
_remove_outliers_iforest_unmasked(df, inliers) == df

\* _remove_outliers_iforest: df[mask].  IsolationForest(contamination=0.05,
\* random_state=42) is the library's; the rows it flags are any rows here.
_remove_outliers_iforest(df, inliers) ==
    select_rows(df, Positions(Len(df.rows), LAMBDA r : r \in inliers))

\* pd.to_numeric(column, downcast=...): the narrower dtype, the values kept
\* (the model's values fit the narrow types).
downcast(df) ==
    [df EXCEPT !.dtypes =
        [c \in 1..Len(df.columns) |->
            IF df.dtypes[c] = "float64" THEN "float32"
            ELSE IF df.dtypes[c] = "int64" THEN "int8"
            ELSE df.dtypes[c]]]

\* ValueError by its name, type(e).__name__
ValueErrorName == "ValueError"

DataProcessingError == "DataProcessingError"

MsgFileNotFound == "Could not find the uploaded file for processing."

MsgMalformed == "Failed to read the CSV file. It might be malformed."

MsgEmptyAfterDropping ==
    "The uploaded CSV is empty or contains no data after removing empty rows/columns."

MsgOnlyNonNumeric ==
    "Some columns contain only non-numeric data and could not be processed. Please clean the data."

MsgEmptyAfterOutliers ==
    "After removing outliers, the dataset is empty. The contamination setting might be too high or the data is very uniform."

MsgConversion ==
    "A data conversion error occurred. Please check for non-numeric data in your CSV."

\* A source of randomness that is not seeded: it differs from one pipeline
\* object to the next.
unseeded == IF first_run.kind = "none" THEN 1 ELSE 2

\* random_state=42 of IsolationForest
iforest_random_state == 42

\* iso.fit_predict(df) != -1 answered with the rows in inliers
FitPredict(df, inliers) ==
    [random_state |-> iforest_random_state, df |-> df,
     inliers |-> inliers \cap (1..Len(df.rows))]

\* What a call of a method did: its outcome, the fields of self after it,
\* and the IsolationForest fits it made.
Call(out, raw, numeric, log, fits) ==
    [outcome |-> out, raw_df |-> raw, numeric_df |-> numeric, log |-> log,
     fits |-> fits]

\* A slip: the filter is run on every frame.
filter_attempted_always(df) == TRUE

\* `if not self.numeric_df.empty:` before _remove_outliers_iforest
filter_attempted(df) == ~empty(df)

\* The second try block from the filled frame on: the identifier columns
\* dropped, the index reset, the outliers removed, the dtypes narrowed.
after_fillna(raw, filled, inliers, log) ==
    LET kept == reset_index(drop_participant_id(filled))
    IN  IF filter_attempted(kept) /\ isnull_any(kept)
          \* IsolationForest.fit_predict rejects NaN with a ValueError, which
          \* the except clause turns into a DataProcessingError
          THEN Call(Raise(DataProcessingError, MsgConversion), raw, kept,
                    log \o <<"Error in while processing dataframe">>,
                    {FitPredict(kept, {})})
        ELSE LET filtered == IF filter_attempted(kept)
                               THEN _remove_outliers_iforest(kept, inliers)
                               ELSE kept
                 fits == IF filter_attempted(kept)
                           THEN {FitPredict(kept, inliers)} ELSE {}
             IN  IF empty(filtered)
                   THEN Call(Raise(DataProcessingError, MsgEmptyAfterOutliers),
                             raw, filtered, log, fits)
                 ELSE Call([kind |-> "return", value |-> downcast(filtered)],
                           raw, downcast(filtered),
                           log \o <<"Downcasting numeric types to reduce memory...",
                                    "Processed DataFrame memory",
                                    "Processed numeric DataFrame shape">>,
                           fits)

\* create_numeric_df(self): the outcome and the fields of self after it.
\* inliers are the rows IsolationForest does not flag.
create_numeric_df(file, inliers, log) ==
    IF file.state = "missing"
      THEN Call(Raise(DataProcessingError, MsgFileNotFound), None, None, log, {})
    ELSE IF file.state = "malformed"
      THEN Call(Raise(DataProcessingError, MsgMalformed), None, None,
                log \o <<"CSV file size">>, {})
    ELSE LET raw == read_csv(file.table)
             log1 == log \o <<"CSV file size">>
             dropped == dropna_rows_all(dropna_columns_all(apply_to_numeric(raw)))
         IN  IF empty(dropped)
               THEN Call(Raise(DataProcessingError, MsgEmptyAfterDropping),
                         raw, dropped, log1, {})
             ELSE LET filled == fillna_mean(dropped)
                  IN  IF isnull_all_any(filled)
                        THEN Call(Raise(DataProcessingError, MsgOnlyNonNumeric),
                                  raw, filled, log1, {})
                      ELSE after_fillna(raw, filled, inliers, log1)

(***************************************************************************)
(* The CSV files the pipeline is constructed with.                         *)
(***************************************************************************)
ColA == <<"A">>

ColB == <<"B">>

ColValue1 == <<"V", "a", "l", "u", "e", "1">>

ColNotes == <<"N", "o", "t", "e", "s">>

MixedCells == {NA, Num(1), Num(2), Str(<<"x">>)}

SparseCells == {NA, Num(1)}

TextCells == {NA, Str(<<"x">>)}

CsvLayouts ==
    { Layout(<<ColA, ColB>>, <<MixedCells, SparseCells>>),
      Layout(<<ColParticipantID, ColValue1>>, <<IdCells, MixedCells>>),
      Layout(<<ColNotes, ColPARTICIPANT_ID, ColValue1>>,
             <<TextCells, IdCells, SparseCells>>),
      Layout(<<Col_participant_id>>, <<SparseCells>>) }

\* file is missing, unreadable, or holds a table of one of the layouts
IsCsvFile(file) ==
    \/ file = [state |-> "missing", table |-> NoTable]
    \/ file = [state |-> "malformed", table |-> NoTable]
    \/ \E layout \in CsvLayouts :
           \E table \in {[columns |-> layout.columns, rows |-> rows] :
                             rows \in UNION {[1..n -> RowsOf(layout.cells)] :
                                                n \in 0..MaxCsvRows}} :
               file = [state |-> "ok", table |-> table]

(***************************************************************************)
(* SpecPipeline: a PCAAnalysisPipeline constructed on a file, and          *)
(* create_numeric_df called on it.                                         *)
(***************************************************************************)
InitPipeline ==
    /\ IsCsvFile(csv_file)
    /\ pipeline_raw_df = None
    /\ numeric_df = None
    /\ log_file = <<>>
    /\ outcome = NoResult
    /\ LabelIdle
    /\ NormaliseIdle
    /\ DecompositionIdle
    /\ RunIdle

\* The library is deterministic: a call made before with the same
\* arguments and the same seed answers as it did then.
SameAnswers(before, calls, Key(_)) ==
    \A c \in calls : \A b \in before : Key(b) = Key(c) => b = c

FitPredictKey(c) == <<c.random_state, c.df>>

\* The stage of the pipeline a method belongs to.
Stage(method) ==
    CASE method = "create_numeric_df" -> 1
      [] method = "fit_pca" -> 2
      [] method = "get_most_important_variables" -> 3
      [] method = "calculate_weighted_variable_importance" -> 4

\* The callers modelled call the methods of one pipeline object in the
\* order of the stages, each at most once, skipping any.
CanCall(method) == \A m \in Range(called) : Stage(m) < Stage(method)

CreateNumericDf ==
    /\ CanCall("create_numeric_df")
    /\ \E inliers \in SUBSET (1..Len(csv_file.table.rows)) :
           LET call == create_numeric_df(csv_file, inliers, log_file)
           IN  /\ SameAnswers(library.IsolationForest, call.fits, FitPredictKey)
               /\ outcome' = call.outcome
               /\ pipeline_raw_df' = call.raw_df
               /\ numeric_df' = call.numeric_df
               /\ log_file' = call.log
               /\ library' = [library EXCEPT !.IsolationForest = @ \cup call.fits]
    /\ called' = Append(called, "create_numeric_df")
    /\ UNCHANGED <<csv_file, label_vars, normalise_vars, run_vars, rotation_method,
                   pca_model, pca_results, weighted_importance, first_run>>

NextPipeline == CreateNumericDf

SpecPipeline == InitPipeline /\ [][NextPipeline]_vars

\* C10: when create_numeric_df returns, the matrix it returns has no missing
\* cell and no column whose name contains 'participant id' in any letter
\* case; and it never fails with the 'columns contain only non-numeric data'
\* error, nor with a conversion error for a cell left missing: every column
\* that survives the dropping has a value, hence a mean to fill with.
C10_NoMissingNoParticipantId ==
    /\ outcome.kind = "return" =>
           /\ outcome.value = numeric_df
           /\ ~isnull_any(numeric_df)
           /\ \A c \in 1..Len(numeric_df.columns) :
                  ~ContainsAnyCase(numeric_df.columns[c], participant_id_kw)
    /\ outcome.kind = "raise" => outcome.msg \notin {MsgOnlyNonNumeric, MsgConversion}

\* A file with a participant id column, a column of text only and a missing
\* cell that is filled in a row that is returned.
C10_Witness ==
    /\ outcome.kind = "return"
    /\ Len(numeric_df.columns) < Len(csv_file.table.columns)
    /\ \E c \in 1..Len(csv_file.table.columns) :
           ContainsAnyCase(csv_file.table.columns[c], participant_id_kw)
    /\ \E r \in 1..Len(numeric_df.rows), c \in 1..Len(numeric_df.columns) :
           \E c0 \in 1..Len(csv_file.table.columns) :
               /\ csv_file.table.columns[c0] = numeric_df.columns[c]
               /\ isna(csv_file.table.rows[numeric_df.index[r] + 1][c0])

(***************************************************************************)
(* pca_logic.py: PCAAnalysis, the variant of the pipeline that is handed   *)
(* a DataFrame.  Its fields raw_df, numeric_df, pca_model and pca_results  *)
(* are the variables of the same names.                                    *)
(***************************************************************************)
\* _remove_outliers_iforest of pca_logic.py: guarded against an empty frame
PCAAnalysis_remove_outliers_iforest(df, inliers) ==
    IF empty(df) \/ Len(df.columns) = 0
      THEN df
      ELSE select_rows(df, Positions(Len(df.rows), LAMBDA r : r \in inliers))

\* PCAAnalysis.create_numeric_df: no check for an empty frame; whatever is
\* raised inside is raised again as it is.
PCAAnalysis_create_numeric_df(raw, inliers, log) ==
    LET dropped == dropna_rows_all(dropna_columns_all(apply_to_numeric(raw)))
        filled == fillna_mean(dropped)
        kept == reset_index(drop_participant_id(filled))
        guarded == empty(kept) \/ Len(kept.columns) = 0
    IN  IF ~guarded /\ isnull_any(kept)
          THEN Call(Raise(ValueErrorName, "Input contains NaN"), raw, kept, log,
                    {FitPredict(kept, {})})
          ELSE LET filtered == PCAAnalysis_remove_outliers_iforest(kept, inliers)
               IN  Call([kind |-> "return", value |-> filtered], raw, filtered,
                        log,
                        IF guarded THEN {} ELSE {FitPredict(kept, inliers)})

\* dataframe is a DataFrame a caller read from a CSV file
IsDataFrame(dataframe) ==
    \E layout \in CsvLayouts :
        \E rows \in UNION {[1..n -> RowsOf(layout.cells)] : n \in 0..MaxCsvRows} :
            dataframe = read_csv([columns |-> layout.columns, rows |-> rows])

\* PCAAnalysis(dataframe)
InitAnalysis ==
    /\ IsDataFrame(pipeline_raw_df)
    /\ csv_file = [state |-> "missing", table |-> NoTable]
    /\ numeric_df = None
    /\ log_file = <<>>
    /\ outcome = NoResult
    /\ LabelIdle
    /\ NormaliseIdle
    /\ DecompositionIdle
    /\ RunIdle

AnalysisCreateNumericDf ==
    /\ "create_numeric_df" \notin Range(called)
    /\ \E inliers \in SUBSET (1..Len(pipeline_raw_df.rows)) :
           LET call == PCAAnalysis_create_numeric_df(pipeline_raw_df, inliers,
                                                     log_file)
           IN  /\ SameAnswers(library.IsolationForest, call.fits, FitPredictKey)
               /\ outcome' = call.outcome
               /\ pipeline_raw_df' = call.raw_df
               /\ numeric_df' = call.numeric_df
               /\ log_file' = call.log
               /\ library' = [library EXCEPT !.IsolationForest = @ \cup call.fits]
    /\ called' = Append(called, "create_numeric_df")
    /\ UNCHANGED <<csv_file, label_vars, normalise_vars, run_vars, rotation_method,
                   pca_model, pca_results, weighted_importance, first_run>>

NextAnalysis == AnalysisCreateNumericDf

SpecAnalysis == InitAnalysis /\ [][NextAnalysis]_vars

(***************************************************************************)
(* The matrix a raw table cleans to, told from the cells of the table.     *)
(***************************************************************************)
IsNumericCell(cell) == ~isnan(to_numeric(cell))

\* the columns with a numeric cell
NumericColumns(df) ==
    {c \in 1..Len(df.columns) : \E r \in 1..Len(df.rows) : IsNumericCell(df.rows[r][c])}

\* the rows with a numeric cell
NumericRows(df) ==
    {r \in 1..Len(df.rows) : \E c \in 1..Len(df.columns) : IsNumericCell(df.rows[r][c])}

\* the columns left when the participant id columns are dropped as well
MeasurementColumns(df) ==
    {c \in NumericColumns(df) : ~ContainsAnyCase(df.columns[c], participant_id_kw)}

CleansToNothing(df) == MeasurementColumns(df) = {} \/ NumericRows(df) = {}

CreateNumericDfCalled == "create_numeric_df" \in Range(called)

\* C11 (as stated): whenever the table read cleans to a matrix with no row or
\* no column, create_numeric_df raises DataProcessingError; create_numeric_df
\* never returns a matrix with no row or no column.
C11_Stated_EmptyMatrixIsDataProcessingError ==
    (CreateNumericDfCalled /\ ~pipeline_raw_df.none) =>
        /\ CleansToNothing(pipeline_raw_df) =>
               /\ outcome.kind = "raise"
               /\ outcome.type = DataProcessingError
        /\ outcome.kind = "return" => ~empty(outcome.value)

\* a column of the table read none of whose cells is numeric
EntirelyNonNumericColumns(df) ==
    {c \in 1..Len(df.columns) : c \notin NumericColumns(df)}

\* C12 (as stated): whenever a column of the input table has no numeric cell,
\* create_numeric_df raises DataProcessingError, whatever the other columns
\* hold.
C12_Stated_NonNumericColumnIsDataProcessingError ==
    (/\ CreateNumericDfCalled
     /\ ~pipeline_raw_df.none
     /\ EntirelyNonNumericColumns(pipeline_raw_df) # {}) =>
        /\ outcome.kind = "raise"
        /\ outcome.type = DataProcessingError

\* The matrix handed to the outlier filter has the measurement columns and
\* the rows with a numeric cell of the table read.
FilterReached ==
    /\ CreateNumericDfCalled
    /\ ~pipeline_raw_df.none
    /\ (outcome.kind = "raise" => outcome.msg = MsgEmptyAfterOutliers)

NoFilteringAttempted ==
    /\ library.IsolationForest = {}
    /\ Len(numeric_df.rows) = Cardinality(NumericRows(pipeline_raw_df))
    /\ Len(numeric_df.columns) = Cardinality(MeasurementColumns(pipeline_raw_df))

\* C13 (as stated): on a matrix that is empty or has a single column the
\* outlier filter is not run and the matrix is left as it is.
C13_Stated_EmptyOrSingleColumnUnfiltered ==
    (/\ FilterReached
     /\ \/ CleansToNothing(pipeline_raw_df)
        \/ Cardinality(MeasurementColumns(pipeline_raw_df)) = 1) =>
        NoFilteringAttempted

\* C13 (amended): on an empty matrix (no row or no column) the outlier filter
\* is not run and the matrix is left as it is; on any other matrix, a
\* single-column one included, IsolationForest is fitted on it and the rows
\* kept are the rows it does not flag.
C13_EmptyUnfilteredOthersFiltered ==
    FilterReached =>
        IF CleansToNothing(pipeline_raw_df)
          THEN NoFilteringAttempted
          ELSE \E fit \in library.IsolationForest :
                   /\ library.IsolationForest = {fit}
                   /\ Len(fit.df.rows) = Cardinality(NumericRows(pipeline_raw_df))
                   /\ Len(fit.df.columns) =
                          Cardinality(MeasurementColumns(pipeline_raw_df))
                   /\ Len(numeric_df.rows) = Cardinality(fit.inliers)
                   /\ \A r \in 1..Len(numeric_df.rows) :
                          numeric_df.index[r] + 1 \in fit.inliers

\* Only a participant id column has numbers: a matrix with rows and no
\* column reaches the filter.
C13_Witness ==
    /\ FilterReached
    /\ MeasurementColumns(pipeline_raw_df) = {}
    /\ NumericRows(pipeline_raw_df) # {}
    /\ library.IsolationForest = {}

\* IsolationForest was fitted and flagged every row.
AllRowsFlagged ==
    \E fit \in library.IsolationForest :
        /\ Len(fit.df.rows) > 0
        /\ fit.inliers = {}

\* C14: when the outlier filter has removed every row, create_numeric_df
\* raises DataProcessingError with the 'after removing outliers' message; the
\* empty matrix is not returned.
C14_AllOutliersIsDataProcessingError ==
    (CreateNumericDfCalled /\ AllRowsFlagged) =>
        /\ outcome.kind = "raise"
        /\ outcome.type = DataProcessingError
        /\ outcome.msg = MsgEmptyAfterOutliers
        /\ Len(numeric_df.rows) = 0

\* A matrix with rows and columns went into the filter and none came out.
C14_Witness ==
    /\ CreateNumericDfCalled
    /\ AllRowsFlagged
    /\ ~CleansToNothing(pipeline_raw_df)
    /\ outcome.kind = "raise"

(***************************************************************************)
(* pca_pipeline_module.py: fit_pca and rotate_pca.  The pca package and    *)
(* factor_analyzer's Rotator are libraries: what they answer is any value  *)
(* of the shape they document, the same for the same arguments and seed.   *)
(* A loadings frame has the components as rows (index PC1, PC2, ...) and   *)
(* the variables as columns.                                               *)
(***************************************************************************)
PCACalculationError == "PCACalculationError"

KeyError == "KeyError"

TypeError == "TypeError"

LinAlgError == "LinAlgError"

MsgNotCreated == "Dataframe not created. Cannot fit PCA."

MsgZeroColumns == "Cannot perform PCA with zero columns. Please check your CSV file."

MsgTooFewComponents == "PCA produced only n component(s). At least 3 components are required for analysis."

MsgInputContainsNaN == "Input contains NaN"

MsgAtLeast2 == "must be at least 2"

MsgPcaNaN ==
    "PCA failed due to missing or non-numeric values after cleaning. Please check your data quality."

MsgPcaSamples == "PCA requires at least 2 samples (rows)"

MsgPcaValue == "A value-related error occurred during PCA."

MsgPcaUnexpected == "An unexpected error occurred during PCA calculation."

\* random_state=42 of pca(...)
pca_random_state == 42

Loadings(index, columns, values) ==
    [index |-> index, columns |-> columns, values |-> values]

NoLoadings == Loadings(<<>>, <<>>, <<>>)

\* ndarray.T
Transpose(values, ncols) ==
    [c \in 1..ncols |-> [r \in 1..Len(values) |-> values[r][c]]]

\* component labels PC1, PC2, ...
PCLabels(n) == [i \in 1..n |-> <<"PC", i>>]

Min(a, b) == IF a < b THEN a ELSE b

\* The loadings the pca package may answer with for c retained components
\* of v variables.
LoadingValues(c, v) ==
    { [i \in 1..c |-> [j \in 1..v |-> <<0, 1>>]],
      [i \in 1..c |-> [j \in 1..v |-> IF i = j THEN <<1, 5>> ELSE <<4, 5>>]],
      [i \in 1..c |-> [j \in 1..v |-> IF j = 1 THEN <<-1, 2>> ELSE <<3, 10>>]] }

\* The variance ratios it may answer with for t computed components.
VarianceRatios(t) ==
    { [i \in 1..t |-> <<1, t>>],
      [i \in 1..t |-> <<1, 2 * i>>] }

\* numpy.cumsum
cumsum(xs) == [i \in 1..Len(xs) |-> RatSum(SubSeq(xs, 1, i))]

PcaAnswer(kind, type, msg, loadings, variance_ratio) ==
    [kind |-> kind, type |-> type, msg |-> msg, loadings |-> loadings,
     variance_ratio |-> variance_ratio, explained_var |-> cumsum(variance_ratio)]

PcaRaises(type, msg) == PcaAnswer("raise", type, msg, NoLoadings, <<>>)

\* What pca(...).fit_transform(df) may answer: an error, or results for t
\* computed components, t at most the smaller side of df, of which c are
\* retained in the loadings.
PcaAnswers(df) ==
    IF isnull_any(df)
      THEN {PcaRaises(ValueErrorName, MsgInputContainsNaN)}
      ELSE {PcaRaises(ValueErrorName, MsgAtLeast2),
            PcaRaises(ValueErrorName, "Found array with 0 sample(s)"),
            PcaRaises(LinAlgError, "SVD did not converge")}
           \cup
           UNION { UNION { { PcaAnswer("return", "", "",
                                       Loadings(PCLabels(c), df.columns, values),
                                       ratios) :
                               values \in LoadingValues(c, Len(df.columns)),
                               ratios \in VarianceRatios(t) } :
                           c \in (IF t = 0 THEN {0} ELSE 1..t) } :
                   t \in 0..Min(Len(df.rows), Len(df.columns)) }

\* pca(variance_threshold, normalize=True, random_state=42).fit_transform(df)
FitTransform(df, answer) ==
    [random_state |-> pca_random_state, df |-> df, answer |-> answer]

FitTransformKey(c) == <<c.random_state, c.df>>

\* What Rotator(method).fit_transform(array) may answer: an error, or an
\* array of the shape of its argument.
RotatorAnswers(array) ==
    { [kind |-> "raise", values |-> <<>>],
      [kind |-> "return",
       values |-> [i \in 1..Len(array) |->
                      [j \in 1..Len(array[i]) |-> RatSub(<<0, 1>>, array[i][j])]]],
      [kind |-> "return",
       values |-> [i \in 1..Len(array) |->
                      [j \in 1..Len(array[i]) |-> <<1, 2>>]]] }

\* Rotator(method=self.rotation_method).fit_transform(loadings_array)
RotatorFitTransform(method, array, answer) ==
    [method |-> method, array |-> array, answer |-> answer]

RotatorKey(c) == <<c.method, c.array>>

\* pca_model: the pca object and its results dict (unset until a fit returns)
PcaModel(fitted, loadings, variance_ratio, explained_var) ==
    [kind |-> "pca", fitted |-> fitted, loadings |-> loadings,
     variance_ratio |-> variance_ratio, explained_var |-> explained_var]

\* self.pca_results = self.pca_model.fit_transform(...): the dict returned
\* is the results dict of the model itself
ResultsOfModel == [kind |-> "dict of pca_model"]

\* np.all(loadings_array == 0)
all_zero(values) ==
    \A i \in 1..Len(values) : \A j \in 1..Len(values[i]) : values[i][j] = <<0, 1>>

\* loadings_array, transposed when it has fewer rows than columns
rotator_argument(original) ==
    IF Len(original.index) < Len(original.columns)
      THEN Transpose(original.values, Len(original.columns))
      ELSE original.values

Rotation(loadings, log, calls, failed) ==
    [loadings |-> loadings, log |-> log, calls |-> calls, failed |-> failed]

\* A slip: a failed rotation leaves no loadings behind.
rotation_failed_cleared(original, log, calls) ==
    Rotation(NoLoadings,
             log \o <<"Rotation failed", "Exception type", "Full traceback",
                      "Continuing with unrotated PCA loadings">>,
             calls, TRUE)

\* The except clause of rotate_pca: the failure is logged, nothing is raised.
rotation_failed(original, log, calls) ==
    Rotation(original,
             log \o <<"Rotation failed", "Exception type", "Full traceback",
                      "Continuing with unrotated PCA loadings">>,
             calls, TRUE)

\* A slip: the rotated array is stored as the rotator returned it.
rotated_df_as_returned(original, rotated_array) ==
    Loadings(original.index, original.columns, rotated_array)

\* rotated_array transposed back if it was transposed, and made a DataFrame
\* with the labels of the original loadings
rotated_df(original, rotated_array) ==
    Loadings(original.index, original.columns,
             IF Len(original.index) < Len(original.columns)
               THEN Transpose(rotated_array, Len(original.index))
               ELSE rotated_array)

\* rotate_pca(self): the loadings of the model after it, the lines logged
\* and the Rotator call made.  answer is what Rotator.fit_transform answers.
rotate_pca(original, method, answer, log) ==
    LET nrows == Len(original.index)
        ncols == Len(original.columns)
        log1 == log \o <<"Original loadings shape", "Attempting rotation",
                         "Loadings array shape">>
        array == rotator_argument(original)
        call == {RotatorFitTransform(method, array, answer)}
    IN  IF nrows * ncols = 0 THEN rotation_failed(original, log1, {})
        ELSE IF all_zero(original.values) THEN rotation_failed(original, log1, {})
        ELSE IF ncols < 2 THEN rotation_failed(original, log1, {})
        ELSE IF answer.kind = "raise"
          THEN rotation_failed(original, log1 \o <<"Applying rotation">>, call)
        ELSE Rotation(rotated_df(original, answer.values),
                      log1 \o <<"Applying rotation", "Rotated array shape",
                                "Successfully applied rotation">>,
                      call, FALSE)

Fit(out, model, results, log, pca_calls, rotator_calls) ==
    [outcome |-> out, pca_model |-> model, pca_results |-> results, log |-> log,
     pca_calls |-> pca_calls, rotator_calls |-> rotator_calls]

\* `except ValueError as e:` of fit_pca
fit_pca_value_error(msg) ==
    IF msg = MsgInputContainsNaN THEN Raise(PCACalculationError, MsgPcaNaN)
    ELSE IF msg = MsgAtLeast2 THEN Raise(PCACalculationError, MsgPcaSamples)
    ELSE Raise(PCACalculationError, MsgPcaValue)

\* A slip: the error raised inside the try block leaves as it is.
fit_pca_exception_reraised(type) == Raise(type, MsgPcaUnexpected)

\* `except Exception as e:` of fit_pca
fit_pca_exception(type) == Raise(PCACalculationError, MsgPcaUnexpected)

\* A slip: any number of components is accepted.
too_few_components_never(n) == FALSE

\* len(self.pca_results.get('explained_var', [])) < 3
too_few_components(n) == n < 3

\* fit_pca(self): answer is what pca.fit_transform answers, rotated what
\* Rotator.fit_transform answers if it is called.
fit_pca(numeric, method, model, results, log, answer, rotated) ==
    IF numeric.none
      THEN Fit(Raise(DataProcessingError, MsgNotCreated), model, results, log,
               {}, {})
    ELSE IF Len(numeric.columns) < 1
      THEN Fit(fit_pca_exception(PCACalculationError), model, results,
               log \o <<"An unexpected error occurred in fit_pca">>, {}, {})
    ELSE LET call == {FitTransform(numeric, answer)}
             unfitted == PcaModel(FALSE, NoLoadings, <<>>, <<>>)
         IN  IF answer.kind = "raise"
               THEN IF answer.type = ValueErrorName
                      THEN Fit(fit_pca_value_error(answer.msg), unfitted, results,
                               log \o <<"Error in fit_pca">>, call, {})
                      ELSE Fit(fit_pca_exception(answer.type), unfitted, results,
                               log \o <<"An unexpected error occurred in fit_pca">>,
                               call, {})
             ELSE LET fitted == PcaModel(TRUE, answer.loadings,
                                         answer.variance_ratio,
                                         answer.explained_var)
                  IN  IF too_few_components(Len(answer.explained_var))
                        THEN Fit(fit_pca_exception(DataProcessingError), fitted,
                                 ResultsOfModel,
                                 log \o <<"An unexpected error occurred in fit_pca">>,
                                 call, {})
                      ELSE IF method = ""
                        THEN Fit([kind |-> "return", value |-> NoneValue], fitted,
                                 ResultsOfModel, log, call, {})
                      ELSE LET rotation == rotate_pca(answer.loadings, method,
                                                      rotated, log)
                           IN  Fit([kind |-> "return", value |-> NoneValue],
                                   [fitted EXCEPT !.loadings = rotation.loadings],
                                   ResultsOfModel, rotation.log, call,
                                   rotation.calls)

(***************************************************************************)
(* get_most_important_variables and calculate_weighted_variable_importance *)
(***************************************************************************)
\* the dict get_most_important_variables builds
Results(explained_variance_ratio, loadings, cumulative_variance) ==
    [kind |-> "results",
     explained_variance_ratio |-> explained_variance_ratio,
     loadings |-> loadings,
     cumulative_variance |-> cumulative_variance,
     n_components |-> Len(cumulative_variance),
     pca_scores |-> "PC"]

\* The try block of get_most_important_variables on what fit_pca left: a
\* pca_results without the keys of a fit is a KeyError, raised again.
build_results(fit) ==
    IF fit.outcome.kind = "raise" THEN fit
    ELSE IF fit.pca_results = NoneValue
      THEN [fit EXCEPT !.outcome = Raise(TypeError, "'NoneType' object is not subscriptable"),
                       !.log = @ \o <<"Error in get_most_important_variables">>]
    ELSE IF fit.pca_results = ResultsOfModel
      THEN [fit EXCEPT !.outcome =
                           [kind |-> "return",
                            value |-> Results(fit.pca_model.variance_ratio,
                                              fit.pca_model.loadings,
                                              fit.pca_model.explained_var)],
                       !.pca_results =
                           Results(fit.pca_model.variance_ratio,
                                   fit.pca_model.loadings,
                                   fit.pca_model.explained_var)]
    ELSE [fit EXCEPT !.outcome = Raise(KeyError, "variance_ratio"),
                     !.log = @ \o <<"Error in get_most_important_variables">>]

\* get_most_important_variables(self): fit_pca first when there is no model.
get_most_important_variables(numeric, method, model, results, log, answer, rotated) ==
    build_results(IF model = NoneValue
                    THEN fit_pca(numeric, method, model, results, log, answer,
                                 rotated)
                    ELSE Fit([kind |-> "return", value |-> NoneValue], model,
                             results, log, {}, {}))

\* min_significance: float=0.3
min_significance == <<3, 10>>

\* abs(loading)
RatAbs(x) == <<Abs(x[1]), x[2]>>

\* x > y on numbers that are not NaN
RatGt(x, y) == x[1] * y[2] > y[1] * x[2]

\* A slip: a loading at the threshold counts as well.
significant_or_equal(loading, threshold) == ~RatGt(threshold, RatAbs(loading))

\* abs(loading) > min_significance
significant(loading, threshold) == RatGt(RatAbs(loading), threshold)

\* The inner loop: weighted after the first n components.
RECURSIVE weighted(_, _, _, _)
weighted(variable_loadings, variance_ratios, threshold, n) ==
    IF n = 0 THEN <<0, 1>>
    ELSE LET before == weighted(variable_loadings, variance_ratios, threshold, n - 1)
             loading == variable_loadings[n]
         IN  IF significant(loading, threshold)
               THEN RatAdd(before, RatMul(RatAbs(loading), variance_ratios[n]))
               ELSE before

\* The outer loop: results as the (variable, score) items of the dict, in
\* the order the variables are inserted.
importance_items(loadings, variance_ratios, threshold) ==
    [v \in 1..Len(loadings.columns) |->
        LET variable_loadings == [i \in 1..Len(loadings.index) |->
                                     loadings.values[i][v]]
            min_length == Min(Len(variable_loadings), Len(variance_ratios))
        IN  <<loadings.columns[v],
              weighted(variable_loadings, variance_ratios, threshold, min_length)>>]

\* sorted(items, key=lambda x: x[1], reverse=True): stable, descending
RECURSIVE sorted_by_score(_)
sorted_by_score(items) ==
    IF items = <<>> THEN <<>>
    ELSE LET rest == sorted_by_score(Tail(items))
             item == Head(items)
             ahead == Cardinality({i \in 1..Len(rest) : RatGt(rest[i][2], item[2])})
         IN  SubSeq(rest, 1, ahead) \o <<item>> \o SubSeq(rest, ahead + 1, Len(rest))

\* sorted_results[:20]
top_20(items) == SubSeq(items, 1, Min(20, Len(items)))

\* self.weighted_importance and self.total_weight
Ranking(ranked, total) ==
    [kind |-> "list", ranked |-> ranked, total_weight |-> total]

\* `return results`: the dict as it was filled
returned_items(items) == items

\* results and sorted_results of the scorer
ranked_and_items(results) ==
    LET items == importance_items(results.loadings,
                                  results.explained_variance_ratio,
                                  min_significance)
    IN  [items |-> items, ranked |-> sorted_by_score(items)]

\* sum(x[1] for x in sorted_results)
total_weight(ranked) == RatSum([i \in 1..Len(ranked) |-> ranked[i][2]])

\* The scoring of calculate_weighted_variable_importance on the
\* pca_results it finds: a dict without the keys
\* get_most_important_variables sets is a KeyError.
score_variables(most, importance) ==
    IF most.outcome.kind = "raise"
      THEN [most EXCEPT !.outcome = @] @@ [weighted_importance |-> importance]
    ELSE IF most.pca_results.kind # "results"
      THEN [most EXCEPT !.outcome =
                Raise(KeyError, IF most.pca_results = EmptyDict
                                  THEN "loadings"
                                  ELSE "explained_variance_ratio")]
           @@ [weighted_importance |-> importance]
    ELSE [most EXCEPT
            !.outcome =
                [kind |-> "return",
                 value |-> returned_items(ranked_and_items(most.pca_results).items)],
            !.log = @ \o <<"Original loadings shape",
                           "Transposed loadings shape", "Variance ratios",
                           "Total weight", "Top 5 weighted variables">>]
         @@ [weighted_importance |->
                Ranking(top_20(ranked_and_items(most.pca_results).ranked),
                        total_weight(ranked_and_items(most.pca_results).ranked))]

\* calculate_weighted_variable_importance(self): get_most_important_variables
\* first when pca_results is None.  The fields of self after it, and what it
\* returned.
calculate_weighted_variable_importance(numeric, method, model, results, importance, log, answer, rotated) ==
    score_variables(IF results = NoneValue
                      THEN get_most_important_variables(numeric, method, model,
                                                        results, log, answer,
                                                        rotated)
                      ELSE Fit([kind |-> "return", value |-> NoneValue], model,
                               results, log, {}, {}),
                    importance)

(***************************************************************************)
(* SpecDecomposition: a pipeline object constructed on a file of samples,  *)
(* its methods called stage by stage, and a second pipeline object         *)
(* constructed on the same file with the same rotation option.             *)
(***************************************************************************)
ColC == <<"C">>

SampleLayout == Layout(<<ColA, ColB, ColC>>, <<{Num(1), Num(2)}, {Num(2)}, {Num(1)}>>)

IsSampleFile(file) ==
    \E rows \in UNION {[1..n -> RowsOf(SampleLayout.cells)] : n \in 0..MaxSamples} :
        file = [state |-> "ok",
                table |-> [columns |-> SampleLayout.columns, rows |-> rows]]

RotationOptions == {"", "varimax"}

InitDecomposition ==
    /\ IsSampleFile(csv_file)
    /\ rotation_method \in RotationOptions
    /\ pipeline_raw_df = None
    /\ numeric_df = None
    /\ log_file = <<>>
    /\ outcome = NoResult
    /\ pca_model = NoneValue
    /\ pca_results = EmptyDict
    /\ weighted_importance = NoneValue
    /\ called = <<>>
    /\ library = NoCalls
    /\ first_run = NoResult
    /\ LabelIdle
    /\ NormaliseIdle
    /\ RunIdle

\* The answers pca.fit_transform may give to the call the method makes; a
\* method that does not call it is not given a choice.
PcaAnswersTo(method(_, _)) ==
    LET unasked == PcaRaises("", "")
        unrotated == [kind |-> "raise", values |-> <<>>]
    IN  IF method(unasked, unrotated).pca_calls = {}
          THEN {unasked}
          ELSE PcaAnswers(numeric_df)

\* The answers Rotator.fit_transform may give to the call the method makes.
RotatorAnswersTo(method(_, _), answer) ==
    LET unrotated == [kind |-> "raise", values |-> <<>>]
    IN  IF method(answer, unrotated).rotator_calls = {}
          THEN {unrotated}
          ELSE RotatorAnswers(rotator_argument(answer.loadings))

\* The calls made answer as the libraries do, and are remembered.
LibraryCalled(call) ==
    /\ SameAnswers(library.pca, call.pca_calls, FitTransformKey)
    /\ SameAnswers(library.Rotator, call.rotator_calls, RotatorKey)
    /\ library' = [library EXCEPT !.pca = @ \cup call.pca_calls,
                                  !.Rotator = @ \cup call.rotator_calls]

FitPca ==
    /\ CanCall("fit_pca")
    /\ LET method(a, r) ==
               fit_pca(numeric_df, rotation_method, pca_model,
                   pca_results, log_file, a, r)
       IN  \E answer \in PcaAnswersTo(method) :
           \E rotated \in RotatorAnswersTo(method, answer) :
               LET call == method(answer, rotated)
               IN  /\ LibraryCalled(call)
                   /\ outcome' = call.outcome
                   /\ pca_model' = call.pca_model
                   /\ pca_results' = call.pca_results
                   /\ log_file' = call.log
    /\ called' = Append(called, "fit_pca")
    /\ UNCHANGED <<csv_file, pipeline_raw_df, numeric_df, rotation_method,
                   weighted_importance, first_run, label_vars, normalise_vars, run_vars>>

GetMostImportantVariables ==
    /\ CanCall("get_most_important_variables")
    /\ LET method(a, r) ==
               get_most_important_variables(
                   numeric_df, rotation_method, pca_model, pca_results,
                   log_file, a, r)
       IN  \E answer \in PcaAnswersTo(method) :
           \E rotated \in RotatorAnswersTo(method, answer) :
               LET call == method(answer, rotated)
               IN  /\ LibraryCalled(call)
                   /\ outcome' = call.outcome
                   /\ pca_model' = call.pca_model
                   /\ pca_results' = call.pca_results
                   /\ log_file' = call.log
    /\ called' = Append(called, "get_most_important_variables")
    /\ UNCHANGED <<csv_file, pipeline_raw_df, numeric_df, rotation_method,
                   weighted_importance, first_run, label_vars, normalise_vars, run_vars>>

CalculateWeightedVariableImportance ==
    /\ CanCall("calculate_weighted_variable_importance")
    /\ LET method(a, r) ==
               calculate_weighted_variable_importance(
                   numeric_df, rotation_method, pca_model, pca_results,
                   weighted_importance, log_file, a, r)
       IN  \E answer \in PcaAnswersTo(method) :
           \E rotated \in RotatorAnswersTo(method, answer) :
               LET call == method(answer, rotated)
               IN  /\ LibraryCalled(call)
                   /\ outcome' = call.outcome
                   /\ pca_model' = call.pca_model
                   /\ pca_results' = call.pca_results
                   /\ weighted_importance' = call.weighted_importance
                   /\ log_file' = call.log
    /\ called' = Append(called, "calculate_weighted_variable_importance")
    /\ UNCHANGED <<csv_file, pipeline_raw_df, numeric_df, rotation_method,
                   first_run, label_vars, normalise_vars, run_vars>>

\* What is kept of a pipeline object when the next one is constructed.
Run(numeric, results) ==
    [kind |-> "run", numeric_df |-> numeric, pca_results |-> results]

\* PCAAnalysisPipeline(csv_file, rotation_option) once more, on the same
\* file with the same option: __init__ sets every field anew.
NewPipeline ==
    /\ first_run.kind = "none"
    /\ called # <<>>
    /\ first_run' = Run(numeric_df, pca_results)
    /\ pipeline_raw_df' = None
    /\ numeric_df' = None
    /\ pca_model' = NoneValue
    /\ pca_results' = EmptyDict
    /\ weighted_importance' = NoneValue
    /\ log_file' = <<>>
    /\ outcome' = NoResult
    /\ called' = <<>>
    /\ UNCHANGED <<csv_file, rotation_method, library, label_vars, normalise_vars, run_vars>>

NextDecomposition ==
    \/ CreateNumericDf
    \/ FitPca
    \/ GetMostImportantVariables
    \/ CalculateWeightedVariableImportance
    \/ NewPipeline

SpecDecomposition == InitDecomposition /\ [][NextDecomposition]_vars

LastCalled(method) == called # <<>> /\ called[Len(called)] = method

\* what pca.fit_transform answered for the matrix of this pipeline object
Decompositions == {c \in library.pca : c.df = numeric_df}

RotationAttempted == "Attempting rotation" \in Range(log_file)

\* C16: once numeric_df is set, whatever error leaves fit_pca is a
\* PCACalculationError; a decomposition of fewer than 3 components makes
\* fit_pca raise it, and no rotation is attempted.
C16_ErrorsOfFitPcaArePCACalculationErrors ==
    (LastCalled("fit_pca") /\ ~numeric_df.none) =>
        /\ outcome.kind = "raise" => outcome.type = PCACalculationError
        /\ (\E c \in Decompositions :
                /\ c.answer.kind = "return"
                /\ Len(c.answer.explained_var) < 3) =>
               /\ outcome.kind = "raise"
               /\ outcome.type = PCACalculationError
               /\ ~RotationAttempted
               /\ library.Rotator = {}

\* A rotation was asked for and the decomposition has two components.
C16_Witness ==
    /\ LastCalled("fit_pca")
    /\ rotation_method # ""
    /\ \E c \in Decompositions :
           /\ c.answer.kind = "return"
           /\ Len(c.answer.explained_var) = 2
    /\ outcome.kind = "raise"

RotationFailed == "Rotation failed" \in Range(log_file)

\* C17: fit_pca, and get_most_important_variables which calls it, return
\* when a rotation was attempted, failed or not; when the rotation failed,
\* the loadings of the model, and those of the results built from it, are
\* the loadings the decomposition answered with.
C17_RotationFailureIsNotFatal ==
    /\ (/\ RotationAttempted
        /\ \/ LastCalled("fit_pca")
           \/ LastCalled("get_most_important_variables")) =>
           outcome.kind = "return"
    /\ RotationFailed =>
           \A c \in Decompositions :
               /\ pca_model.loadings = c.answer.loadings
               /\ pca_results.kind = "results" =>
                      pca_results.loadings = c.answer.loadings

\* Rotator.fit_transform raised, and the results were built afterwards.
C17_Witness ==
    /\ RotationFailed
    /\ \E r \in library.Rotator : r.answer.kind = "raise"
    /\ pca_results.kind = "results"
    /\ pca_results.loadings.values # <<>>
    /\ LastCalled("calculate_weighted_variable_importance")

\* the share of component i in the score of the variable in column v
Contribution(loadings, variance_ratios, v, i) ==
    IF RatGt(RatAbs(loadings.values[i][v]), min_significance)
      THEN RatMul(RatAbs(loadings.values[i][v]), variance_ratios[i])
      ELSE <<0, 1>>

\* the scorer returned its mapping
ScorerReturned ==
    /\ LastCalled("calculate_weighted_variable_importance")
    /\ outcome.kind = "return"

\* C18: the mapping calculate_weighted_variable_importance returns has one
\* entry for every column of the matrix; the value of a variable is the sum,
\* over the components i below min(components of the loadings, variance
\* ratios), of abs(loading) * variance_ratios[i] where abs(loading) is
\* strictly greater than min_significance and of 0 elsewhere; every score
\* is non-negative.
C18_ScoreIsSumOverSignificantComponents ==
    ScorerReturned =>
        LET loadings == pca_results.loadings
            variance_ratios == pca_results.explained_variance_ratio
            min_length == Min(Len(loadings.index), Len(variance_ratios))
            returned == outcome.value
        IN  /\ Len(returned) = Len(numeric_df.columns)
            /\ \A v \in 1..Len(numeric_df.columns) :
                   LET score == returned[v][2]
                       sum == RatSum([i \in 1..min_length |->
                                         Contribution(loadings, variance_ratios, v, i)])
                   IN  /\ returned[v][1] = numeric_df.columns[v]
                       /\ score[1] * sum[2] = sum[1] * score[2]
                       /\ score[2] > 0
                       /\ score[1] >= 0

\* The scorer returned a mapping in which a variable has a loading exactly
\* at the threshold, a variable scores 0, a variable scores more than 0, and
\* there are fewer components in the loadings than variance ratios.
C18_Witness ==
    /\ ScorerReturned
    /\ Len(pca_results.loadings.index) < Len(pca_results.explained_variance_ratio)
    /\ \E v \in 1..Len(numeric_df.columns) :
           \E i \in 1..Len(pca_results.loadings.index) :
               RatAbs(pca_results.loadings.values[i][v]) = min_significance
    /\ \E k \in 1..Len(outcome.value) : outcome.value[k][2][1] = 0
    /\ \E k \in 1..Len(outcome.value) : outcome.value[k][2][1] > 0

\* C19 as stated: iterating the mapping calculate_weighted_variable_importance
\* returns yields scores that never increase.
C19_Stated_ReturnedMappingIsSortedDescending ==
    ScorerReturned =>
        \A k \in 1..(Len(outcome.value) - 1) :
            ~RatGt(outcome.value[k + 1][2], outcome.value[k][2])

\* both pipeline objects built their results
BothRunsHaveResults ==
    /\ first_run.kind = "run"
    /\ first_run.pca_results.kind = "results"
    /\ pca_results.kind = "results"

\* C20: two pipeline objects constructed on the same file with the same
\* rotation option, both seeded with the fixed random_state, end with the
\* same matrix and the same explained_variance_ratio.
C20_TwoRunsSameExplainedVarianceRatio ==
    /\ (first_run.kind = "run" /\ ~first_run.numeric_df.none /\ ~numeric_df.none) =>
           numeric_df = first_run.numeric_df
    /\ BothRunsHaveResults =>
           pca_results.explained_variance_ratio =
               first_run.pca_results.explained_variance_ratio

\* Both runs filtered outliers out of the file, decomposed what was left
\* and built their results.
C20_Witness ==
    /\ BothRunsHaveResults
    /\ Len(numeric_df.rows) < Len(csv_file.table.rows)
    /\ pca_results.explained_variance_ratio # <<>>
    /\ \E c \in library.pca : c.random_state = pca_random_state /\ c.df = numeric_df
    /\ \E c \in library.IsolationForest : c.random_state = iforest_random_state

\* Rotator.fit_transform was called on the loadings of a decomposition
RotatorInvokedOn(loadings) ==
    /\ Len(loadings.index) * Len(loadings.columns) > 0
    /\ \E r \in library.Rotator : r.array = rotator_argument(loadings)

\* C23 as stated: the rotator is invoked only on loadings that are
\* non-empty, not all zero and hold at least 2 components (the loadings of
\* the decomposition hold one row per component).
C23_Stated_RotatorOnlyOnTwoComponents ==
    \A c \in Decompositions :
        (c.answer.kind = "return" /\ RotatorInvokedOn(c.answer.loadings)) =>
            /\ ~all_zero(c.answer.loadings.values)
            /\ Len(c.answer.loadings.index) >= 2

RotationSucceeded == "Successfully applied rotation" \in Range(log_file)

\* array is the matrix values with rows and columns exchanged
IsTransposeOf(array, values, nrows, ncols) ==
    /\ Len(array) = ncols
    /\ \A j \in 1..ncols :
           /\ Len(array[j]) = nrows
           /\ \A i \in 1..nrows : array[j][i] = values[i][j]

IndexError == "IndexError"

\* the most components of a pca_results handed to the scorer
MaxComponents == 3

\* the thresholds (per cent) display_important_variables is called with
Thresholds == {25, 80, 100}

\* cumvar >= threshold/100, for one element of cumvar
reaches(cumulative, threshold) ==
    cumulative[1] * 100 >= threshold * cumulative[2]

\* np.argmax of a boolean array: the index (from 0) of the first True, and
\* 0 when there is none
argmax(bools) ==
    IF \E i \in 1..Len(bools) : bools[i]
      THEN (CHOOSE i \in 1..Len(bools) :
                bools[i] /\ \A j \in 1..(i - 1) : ~bools[j]) - 1
      ELSE 0

\* np.argmax(cumvar >= threshold/100) + 1
components_needed(cumvar, threshold) ==
    argmax([i \in 1..Len(cumvar) |-> reaches(cumvar[i], threshold)]) + 1

\* what display_important_variables did: its outcome, self.n_components,
\* whether the loadings were saved to the CSV file, and the log
Display(out, n, saved, log) ==
    [outcome |-> out, n_components |-> n, saved |-> saved, log |-> log]

\* display_important_variables(self, num_vars, threshold) on the
\* pca_results it finds; n is self.n_components before the call.
display_important_variables(results, n, num_vars, threshold, log) ==
    LET failed == log \o <<"Error in display_important_variables">>
    IN  IF results = NoneValue
          THEN Display(Raise(TypeError, "'NoneType' object is not subscriptable"),
                       n, FALSE, failed)
        ELSE IF results.kind # "results"
          THEN Display(Raise(KeyError, IF results = EmptyDict
                                         THEN "loadings"
                                         ELSE "cumulative_variance"),
                       n, FALSE, failed)
        ELSE IF results.cumulative_variance = <<>>
          THEN Display(Raise(ValueErrorName,
                             "attempt to get argmax of an empty sequence"),
                       n, FALSE, failed)
        ELSE LET needed == components_needed(results.cumulative_variance,
                                             threshold)
                 shown == Min(num_vars, Len(results.loadings.columns))
                 log1 == log \o <<"Components needed", "PCA loadings saved">>
             IN  IF shown > Len(results.explained_variance_ratio)
                   THEN Display(Raise(IndexError, "index out of bounds"),
                                needed, TRUE,
                                log1 \o <<"Error in display_important_variables">>)
                   ELSE Display([kind |-> "return", value |-> needed], needed,
                                TRUE, log1)

\* open(path, mode).write(lines) by a writer: "w" replaces what the file
\* held, "a" adds to it.  A file is the lines it holds, each with the writer
\* it comes from, and everyone who wrote to it.
Written(held, path, writer, lines, mode) ==
    LET entries == [i \in 1..Len(lines) |-> <<writer, lines[i]>>]
        exists == path \in DOMAIN held
        before == IF mode = "a" /\ exists THEN held[path].lines ELSE <<>>
        writers == IF exists THEN held[path].writers ELSE {}
    IN  [p \in DOMAIN held \cup {path} |->
            IF p = path
              THEN [writers |-> writers \cup {writer}, lines |-> before \o entries]
              ELSE held[p]]

\* os.path.join(self.results_dir, f'pca_loadings_{self.timestamp}.csv')
loadings_path(timestamp) == <<"pca_loadings", timestamp>>

\* pca_results['loadings'] with one row per component
ComponentMajor(t) ==
    UNION { { Loadings(PCLabels(c), SampleLayout.columns, values) :
                values \in LoadingValues(c, Len(SampleLayout.columns)) } :
            c \in 1..t }

\* pca_results['loadings'] with one row per variable
VariableMajor(t) ==
    UNION { { Loadings(SampleLayout.columns, PCLabels(c), values) :
                values \in LoadingValues(Len(SampleLayout.columns), c) } :
            c \in 1..t }

\* results is a dict with the keys get_most_important_variables sets
IsResults(results) ==
    \E t \in 1..MaxComponents :
        \E ratios \in VarianceRatios(t) :
            \E loadings \in ComponentMajor(t) \cup VariableMajor(t) :
                results = Results(ratios, loadings, cumsum(ratios))

InitScorer ==
    /\ IsResults(pca_results)
    /\ csv_file = [state |-> "missing", table |-> NoTable]
    /\ pipeline_raw_df = None
    /\ numeric_df = None
    /\ log_file = <<>>
    /\ outcome = NoResult
    /\ rotation_method = ""
    /\ pca_model = NoneValue
    /\ weighted_importance = NoneValue
    /\ called = <<>>
    /\ library = NoCalls
    /\ first_run = NoResult
    /\ LabelIdle
    /\ NormaliseIdle
    /\ RunIdle

DisplayImportantVariables ==
    /\ "display_important_variables" \notin Range(called)
    /\ \E num_vars \in {2, 6}, t \in Thresholds :
           LET call == display_important_variables(pca_results, n_components,
                                                   num_vars, t, log_file)
           IN  /\ outcome' = call.outcome
               /\ n_components' = call.n_components
               /\ log_file' = call.log
               /\ display_threshold' = t
               /\ files' = IF call.saved
                             THEN Written(files, loadings_path(clock), 0,
                                          <<pca_results.loadings>>, "w")
                             ELSE files
    /\ called' = Append(called, "display_important_variables")
    /\ UNCHANGED <<csv_file, pipeline_raw_df, numeric_df, rotation_method,
                   pca_model, pca_results, weighted_importance, library,
                   first_run, stage_errors, clock, runs, label_vars,
                   normalise_vars>>

ScoreVariables ==
    /\ "calculate_weighted_variable_importance" \notin Range(called)
    /\ LET call == score_variables(Fit([kind |-> "return", value |-> NoneValue],
                                       pca_model, pca_results, log_file, {}, {}),
                                   weighted_importance)
       IN  /\ outcome' = call.outcome
           /\ weighted_importance' = call.weighted_importance
           /\ log_file' = call.log
    /\ called' = Append(called, "calculate_weighted_variable_importance")
    /\ UNCHANGED <<csv_file, pipeline_raw_df, numeric_df, rotation_method,
                   pca_model, pca_results, library, first_run, label_vars,
                   normalise_vars, run_vars>>

NextScorer ==
    \/ DisplayImportantVariables
    \/ ScoreVariables

SpecScorer == InitScorer /\ [][NextScorer]_vars

\* display_important_variables returned the number of components
Displayed ==
    /\ LastCalled("display_important_variables")
    /\ outcome.kind = "return"

\* C26 as stated: the number display_important_variables returns is the
\* least C whose cumulative explained variance is at least threshold/100; it
\* never returns a C whose cumulative variance is below the threshold.
C26_Stated_LeastComponentReachingThreshold ==
    Displayed =>
        LET cumvar == pca_results.cumulative_variance
            C == outcome.value
        IN  /\ C \in 1..Len(cumvar)
            /\ cumvar[C][1] * 100 >= display_threshold * cumvar[C][2]
            /\ \A i \in 1..(C - 1) :
                   cumvar[i][1] * 100 < display_threshold * cumvar[i][2]

CalledTwice(method) ==
    /\ Len(called) >= 2
    /\ called[Len(called)] = method
    /\ called[Len(called) - 1] = method

GetMostImportantVariablesAgain ==
    /\ LastCalled("get_most_important_variables")
    /\ ~CalledTwice("get_most_important_variables")
    /\ outcome.kind = "return"
    /\ LET method(a, r) ==
               get_most_important_variables(
                   numeric_df, rotation_method, pca_model, pca_results,
                   log_file, a, r)
       IN  \E answer \in PcaAnswersTo(method) :
           \E rotated \in RotatorAnswersTo(method, answer) :
               LET call == method(answer, rotated)
               IN  /\ LibraryCalled(call)
                   /\ outcome' = call.outcome
                   /\ pca_model' = call.pca_model
                   /\ pca_results' = call.pca_results
                   /\ log_file' = call.log
    /\ called' = Append(called, "get_most_important_variables")
    /\ UNCHANGED <<csv_file, pipeline_raw_df, numeric_df, rotation_method,
                   weighted_importance, first_run, label_vars, normalise_vars,
                   run_vars>>

NextRepeat ==
    \/ CreateNumericDf
    \/ FitPca
    \/ GetMostImportantVariables
    \/ GetMostImportantVariablesAgain

SpecRepeat == InitDecomposition /\ [][NextRepeat]_vars

\* C28 as stated: a second call of get_most_important_variables on a
\* pipeline object, right after the first returned, returns as well, and
\* returns the results the first call left in pca_results.
C28_Stated_SecondCallReturnsTheSame ==
    CalledTwice("get_most_important_variables") =>
        /\ outcome.kind = "return"
        /\ outcome.value = pca_results

\* calculate_weighted_variable_importance was called on a pipeline object
\* whose matrix was created and on which get_most_important_variables was
\* not called
ScoredBeforeResults ==
    /\ LastCalled("calculate_weighted_variable_importance")
    /\ "create_numeric_df" \in Range(called)
    /\ "get_most_important_variables" \notin Range(called)
    /\ ~numeric_df.none

\* C29 as stated: calculate_weighted_variable_importance called before
\* get_most_important_variables runs the missing stages itself: it does not
\* fail on a key of pca_results that is not set yet, and when the
\* decomposition of the matrix has the 3 components fit_pca asks for, it
\* returns.
C29_Stated_ScorerRunsMissingStages ==
    ScoredBeforeResults =>
        /\ outcome.kind = "raise" => outcome.type \notin {KeyError, TypeError}
        /\ (\E c \in Decompositions :
                /\ c.answer.kind = "return"
                /\ ~too_few_components(Len(c.answer.explained_var))) =>
               outcome.kind = "return"

(***************************************************************************)
(* run_full_pipeline, and SpecRun: run_full_pipeline called on a pipeline  *)
(* object constructed on a file of samples.                                *)
(***************************************************************************)
OSError == "OSError"

\* The error first raised inside fit_pca, by its own checks or by the pca
\* package, before any except clause handles it.
fit_pca_raised(numeric, answer) ==
    IF numeric.none THEN Raise(DataProcessingError, MsgNotCreated)
    ELSE IF Len(numeric.columns) < 1 THEN Raise(PCACalculationError, MsgZeroColumns)
    ELSE IF answer.kind = "raise" THEN Raise(answer.type, answer.msg)
    ELSE IF too_few_components(Len(answer.explained_var))
      THEN Raise(DataProcessingError, MsgTooFewComponents)
    ELSE NoError

\* os.path.join(self.results_dir, f"PCA Analysis Report {csv_name}_..._{timestamp}.pdf")
pdf_path(csv_name, method, timestamp) ==
    IF method # ""
      THEN <<"PCA Analysis Report", csv_name, method, timestamp>>
      ELSE <<"PCA Analysis Report", csv_name, timestamp>>

\* What run_full_pipeline did: what reached its caller, the errors its
\* stages raised, self.n_components, the lines logged, whether the loadings
\* CSV and the PDF report were written, and the library calls made.
RunOf(out, errors, n, log, saved, pdf, fits, pca_calls, rotator_calls) ==
    [outcome |-> out, stage_errors |-> errors, n_components |-> n, log |-> log,
     saved |-> saved, pdf |-> pdf, fits |-> fits, pca_calls |-> pca_calls,
     rotator_calls |-> rotator_calls]

\* `except Exception as e:` of run_full_pipeline: logged, the fields
\* cleared, and the same error raised again
run_error(reaching, errors, n, log, saved, fits, pca_calls, rotator_calls) ==
    RunOf(reaching, errors, n,
          log \o <<"Error in run_full_pipeline", "Cleaning up memory after error...">>,
          saved, FALSE, fits, pca_calls, rotator_calls)

\* the one element of a set of one element
The(S) == CHOOSE x \in S : TRUE

\* Steps 6 and 7: create_pdf_report and the dict returned.  The scorer ran
\* inside its own try/except: its error is logged and the run goes on.
\* pdf_answer is whether matplotlib writes the report or raises.
run_from_scored(shape, most, shown, scored, fits, pdf_answer) ==
    LET swallowed == scored.outcome.kind = "raise"
        errors == IF swallowed THEN <<scored.outcome>> ELSE <<>>
        log5 == (IF swallowed
                   THEN scored.log \o <<"Warning in weighted importance calculation">>
                   ELSE scored.log) \o <<"Step 6">>
    IN  IF pdf_answer = "raise"
          THEN run_error(Raise(OSError, "savefig"),
                         Append(errors, Raise(OSError, "savefig")),
                         shown.n_components, log5, TRUE, fits, most.pca_calls,
                         most.rotator_calls)
          ELSE RunOf([kind |-> "return",
                      value |-> [n_components |-> shown.n_components,
                                 numeric_df_shape |-> shape,
                                 total_variance_explained |->
                                     most.pca_results.cumulative_variance[
                                         Len(most.pca_results.cumulative_variance)],
                                 pdf_path |-> "pdf_path"]],
                     errors, shown.n_components,
                     log5 \o <<"Deleting pca_model", "Comprehensive PDF report saved",
                               "Step 7">>,
                     TRUE, TRUE, fits, most.pca_calls, most.rotator_calls)

\* Step 5: calculate_weighted_variable_importance on the results displayed.
run_from_shown(shape, most, shown, fits, pdf_answer) ==
    IF shown.outcome.kind = "raise"
      THEN run_error(shown.outcome, <<shown.outcome>>, shown.n_components,
                     shown.log, shown.saved, fits, most.pca_calls,
                     most.rotator_calls)
      ELSE The({ run_from_scored(shape, most, shown, scored, fits, pdf_answer) :
                   scored \in {score_variables(
                                   [most EXCEPT !.log = shown.log \o <<"Step 5">>],
                                   NoneValue)} })

\* Step 4: display_important_variables on the results built.
run_from_most(shape, most, n, fits, pdf_answer) ==
    IF most.outcome.kind = "raise"
      THEN run_error(most.outcome, <<most.outcome>>, n, most.log, FALSE, fits,
                     most.pca_calls, most.rotator_calls)
      ELSE The({ run_from_shown(shape, most, shown, fits, pdf_answer) :
                   shown \in {display_important_variables(
                                  most.pca_results, n, 6, 80,
                                  most.log \o <<"Step 4">>)} })

\* Step 3: numeric_df deleted, then get_most_important_variables on what
\* fit_pca left.
run_from_fit(created, fit, n, answer, pdf_answer) ==
    IF fit.outcome.kind = "raise"
      THEN run_error(fit.outcome, <<fit_pca_raised(created.numeric_df, answer)>>,
                     n, fit.log, FALSE, created.fits, fit.pca_calls,
                     fit.rotator_calls)
      ELSE The({ run_from_most(<<Len(created.numeric_df.rows),
                                 Len(created.numeric_df.columns)>>,
                               most, n, created.fits, pdf_answer) :
                   most \in {build_results(
                                 [fit EXCEPT !.log = @ \o <<"Deleting numeric_df",
                                                            "Step 3">>])} })

\* Step 2: fit_pca on the matrix created.
run_from_created(created, method, n, answer, rotated, pdf_answer) ==
    IF created.outcome.kind = "raise"
      THEN run_error(created.outcome, <<created.outcome>>, n, created.log, FALSE,
                     created.fits, {}, {})
      ELSE The({ run_from_fit(created, fit, n, answer, pdf_answer) :
                   fit \in {fit_pca(created.numeric_df, method, NoneValue,
                                    EmptyDict, created.log \o <<"Step 2">>,
                                    answer, rotated)} })

\* run_full_pipeline(self) on a pipeline object just constructed.
run_full_pipeline(file, method, n, log, inliers, answer, rotated, pdf_answer) ==
    The({ run_from_created(created, method, n, answer, rotated, pdf_answer) :
            created \in {create_numeric_df(
                             file, inliers,
                             log \o <<"Starting PCA Analysis Pipeline...",
                                      "Step 1">>)} })

\* the answers of the libraries to a run on the matrix create_numeric_df
\* made: the decomposition, the rotation and whether the report can be
\* written
AnswersOn(inliers, created) ==
    UNION { { [inliers |-> inliers, answer |-> answer, rotated |-> rotated,
               pdf |-> pdf] :
                rotated \in IF answer.kind = "raise"
                              THEN {[kind |-> "raise", values |-> <<>>]}
                              ELSE RotatorAnswers(rotator_argument(answer.loadings)),
                pdf \in {"saved", "raise"} } :
            answer \in IF created.outcome.kind = "raise"
                         THEN {PcaRaises("", "")}
                         ELSE PcaAnswers(created.numeric_df) }

\* the answers of the libraries to a run, with the rows IsolationForest
\* keeps
RunAnswers(file) ==
    UNION { UNION { AnswersOn(inliers, created) :
                      created \in {create_numeric_df(file, inliers, <<>>)} } :
            inliers \in SUBSET (1..Len(file.table.rows)) }

RunFullPipeline ==
    /\ called = <<>>
    /\ \E a \in RunAnswers(csv_file) :
           \E call \in {run_full_pipeline(csv_file, rotation_method, n_components,
                                          log_file, a.inliers, a.answer,
                                          a.rotated, a.pdf)} :
               /\ SameAnswers(library.IsolationForest, call.fits, FitPredictKey)
               /\ SameAnswers(library.pca, call.pca_calls, FitTransformKey)
               /\ SameAnswers(library.Rotator, call.rotator_calls, RotatorKey)
               /\ library' = [IsolationForest |->
                                  library.IsolationForest \cup call.fits,
                              pca |-> library.pca \cup call.pca_calls,
                              Rotator |-> library.Rotator \cup call.rotator_calls]
               /\ outcome' = call.outcome
               /\ stage_errors' = call.stage_errors
               /\ n_components' = call.n_components
               /\ log_file' = call.log
               /\ files' =
                      LET saved == IF call.saved
                                     THEN Written(files, loadings_path(clock), 0,
                                                  <<"loadings">>, "w")
                                     ELSE files
                      IN  IF call.pdf
                            THEN Written(saved,
                                         pdf_path("sample", rotation_method, clock),
                                         0, call.log, "w")
                            ELSE saved
    /\ pipeline_raw_df' = None
    /\ numeric_df' = None
    /\ pca_model' = NoneValue
    /\ pca_results' = NoneValue
    /\ weighted_importance' = NoneValue
    /\ called' = Append(called, "run_full_pipeline")
    /\ UNCHANGED <<csv_file, rotation_method, first_run, display_threshold, clock,
                   runs, label_vars, normalise_vars>>

NextRun == RunFullPipeline

SpecRun == InitDecomposition /\ [][NextRun]_vars

\* C21 as stated: an error that reaches the caller of run_full_pipeline is
\* the error the failing stage raised, and when a stage raised an error the
\* run does not return.
C21_Stated_StageErrorsReachCallerUnmodified ==
    LastCalled("run_full_pipeline") =>
        /\ outcome.kind = "raise" =>
               /\ stage_errors # <<>>
               /\ outcome = stage_errors[Len(stage_errors)]
        /\ stage_errors # <<>> => outcome.kind = "raise"

(***************************************************************************)
(* pca_service.py, and SpecService: the requests one PCAService processes  *)
(* concurrently.  Every request runs process_file in a thread of its own;  *)
(* a step of a request is one access to the file system or to the clock.   *)
(***************************************************************************)
\* the requests in flight
MaxRequests == 2

\* the seconds the clock goes through
MaxClock == 1

Requests == 1..MaxRequests

\* secure_filename(file.filename) of the uploads
Filenames == {"a", "b"}

\* os.path.join(self.temp_dir, f"{timestamp}_{filename}")
upload_path(timestamp, filename) == <<"upload", timestamp, filename>>

\* os.path.join(self.results_dir, f"results_{timestamp}.txt")
log_path(timestamp) == <<"results", timestamp>>

\* a request: where its thread is, the upload it came with, the rotation
\* asked for, and the timestamps process_file and __init__ took
Request(pc, filename, method, uploaded, timestamp) ==
    [pc |-> pc, filename |-> filename, method |-> method,
     uploaded |-> uploaded, timestamp |-> timestamp]

\* os.remove(path)
Removed(held, path) == [p \in DOMAIN held \ {path} |-> held[p]]

\* PCAService(): an empty results directory; the requests arrive later
InitService ==
    /\ clock = 0
    /\ files = <<>>
    /\ runs = [r \in Requests |-> Request("waiting", "", "", 0, 0)]
    /\ n_components = NoneValue
    /\ display_threshold = 0
    /\ stage_errors = <<>>
    /\ LabelIdle
    /\ NormaliseIdle
    /\ PipelineIdle
    /\ DecompositionIdle

service_vars == <<n_components, display_threshold, stage_errors, label_vars,
                  normalise_vars, pipeline_vars, decomposition_vars>>

\* a second passes
Tick ==
    /\ clock < MaxClock
    /\ clock' = clock + 1
    /\ UNCHANGED <<files, runs, service_vars>>

\* process_file: the upload saved under the timestamp of now
SaveUpload(r) ==
    /\ runs[r].pc = "waiting"
    /\ \E filename \in Filenames, method \in RotationOptions :
           /\ runs' = [runs EXCEPT ![r] = Request("saved", filename, method, clock, 0)]
           /\ files' = Written(files, upload_path(clock, filename), r,
                               <<"csv">>, "w")
    /\ UNCHANGED <<clock, service_vars>>

\* PCAAnalysisPipeline(upload_path, rotation_method, results_dir): the log
\* file is named after the timestamp of now
Construct(r) ==
    /\ runs[r].pc = "saved"
    /\ runs' = [runs EXCEPT ![r].pc = "constructed", ![r].timestamp = clock]
    /\ UNCHANGED <<clock, files, service_vars>>

\* run_full_pipeline, steps 1 to 3: _log appends to the log file
LogSteps(r) ==
    /\ runs[r].pc = "constructed"
    /\ runs' = [runs EXCEPT ![r].pc = "logged"]
    /\ files' = Written(files, log_path(runs[r].timestamp), r,
                        <<"Starting PCA Analysis Pipeline...">>, "a")
    /\ UNCHANGED <<clock, service_vars>>

\* step 4: display_important_variables saves the loadings
SaveLoadings(r) ==
    /\ runs[r].pc = "logged"
    /\ runs' = [runs EXCEPT ![r].pc = "displayed"]
    /\ files' = Written(files, loadings_path(runs[r].timestamp), r,
                        <<"loadings">>, "w")
    /\ UNCHANGED <<clock, service_vars>>

\* step 6: create_pdf_report reads the log file into the last page of the
\* report
SaveReport(r) ==
    /\ runs[r].pc = "displayed"
    /\ runs' = [runs EXCEPT ![r].pc = "reported"]
    /\ files' = Written(files,
                        pdf_path(<<runs[r].uploaded, runs[r].filename>>,
                                 runs[r].method, runs[r].timestamp),
                        r, files[log_path(runs[r].timestamp)].lines, "w")
    /\ UNCHANGED <<clock, service_vars>>

\* the finally clause of process_file: the upload is removed if it exists
RemoveUpload(r) ==
    /\ runs[r].pc = "reported"
    /\ runs' = [runs EXCEPT ![r].pc = "done"]
    /\ files' = Removed(files, upload_path(runs[r].uploaded, runs[r].filename))
    /\ UNCHANGED <<clock, service_vars>>

NextService ==
    \/ Tick
    \/ \E r \in Requests : SaveUpload(r)
    \/ \E r \in Requests : Construct(r)
    \/ \E r \in Requests : LogSteps(r)
    \/ \E r \in Requests : SaveLoadings(r)
    \/ \E r \in Requests : SaveReport(r)
    \/ \E r \in Requests : RemoveUpload(r)

SpecService == InitService /\ [][NextService]_vars

\* the files of the results directory: logs, loadings and reports
IsResultFile(path) == path[1] # "upload"

\* C22 as stated: no file of the results directory is written by two
\* requests, and the report of a request holds no log line of another one.
C22_Stated_RunsShareNoFile ==
    \A path \in DOMAIN files :
        IsResultFile(path) =>
            /\ Cardinality(files[path].writers) <= 1
            /\ path[1] = "PCA Analysis Report" =>
                   \A k \in 1..Len(files[path].lines) :
                       files[path].lines[k][2][1] = files[path].lines[k][1]

\* C27 as stated: normalise_data leaves the table of its caller as it was,
\* the timepoint and the condition columns included.
C27_Stated_CallerTableUnchanged == [][raw_df' = raw_df]_vars

\* row r of df has a missing timepoint or a missing condition
MissingLabel(df, r) ==
    \/ isna(df.rows[r][find_column(df.columns, timepoint_kw)])
    \/ isna(df.rows[r][find_column(df.columns, condition_kw)])

\* df without the rows that have a missing timepoint or condition
WithoutMissingLabels(df) ==
    [df EXCEPT !.rows =
        LET kept == Positions(Len(df.rows), LAMBDA r : ~MissingLabel(df, r))
        IN  [i \in 1..Len(kept) |-> df.rows[kept[i]]]]

\* C30: when normalise_data returns, a row with a missing timepoint or
\* condition still has it missing in the caller's table, the output is the
\* output for the table without such rows, and every entry carries the
\* labels of a row that has both.
C30_MissingLabelsAreInNoGroup ==
    [][(result.kind = "none" /\ result'.kind = "return") =>
          /\ \A r \in 1..Len(raw_df.rows) :
                 MissingLabel(raw_df, r) <=> MissingLabel(raw_df', r)
          /\ result' = normalise_data(WithoutMissingLabels(raw_df)).result
          /\ \A k \in 1..Len(result'.variables) :
                 \E r \in 1..Len(raw_df.rows) :
                     /\ ~MissingLabel(raw_df, r)
                     /\ standardize_timepoint(
                            raw_df.rows[r][find_column(raw_df.columns,
                                                       timepoint_kw)]).s
                          = EntryLabel(result'.variables[k], "timepoint")
                     /\ standardize_condition(
                            raw_df.rows[r][find_column(raw_df.columns,
                                                       condition_kw)]).s
                          = EntryLabel(result'.variables[k], "condition")]_vars

\* normalise_data returned entries for a table in which a row with a
\* measurement has a missing timepoint and another row has both labels.
C30_Witness ==
    /\ Returned
    /\ result.variables # <<>>
    /\ \E r \in 1..Len(raw_df.rows) :
           /\ MissingLabel(raw_df, r)
           /\ \E c \in 1..Len(raw_df.columns) :
                  /\ raw_df.columns[c] = ColSpeed
                  /\ ~isnan(to_numeric(raw_df.rows[r][c]))

=============================================================================
